---- MODULE Spec2Model ----
(***************************************************************************)
(* Model of one invocation of the WASI host runtime of                     *)
(* src/src/lib/pandoc/wasi.ts, driven as in src/src/lib/pandoc/index.ts.   *)
(* The guest is an arbitrary program: it issues syscalls one at a time,    *)
(* with arguments of its own choice.  The host streams are WHATWG streams: *)
(* stdin a readable byte stream, stdout / stderr writable streams.         *)
(***************************************************************************)
EXTENDS Integers, Sequences, FiniteSets, TLC

(* ------------------------------ bounds --------------------------------- *)
\* size of the guest linear memory, in bytes
MemSize == 28
\* longest input the source delivers
MaxStdin == 3
\* syscalls the guest issues in one run
MaxSyscalls == 2
\* exit codes the guest passes to proc_exit: 0..MaxExitCode
MaxExitCode == 2
\* longest argument list of an invocation
MaxArgs == 2
\* render calls of the page
MaxRenders == 2
\* runs of the effect of Page: the mount and the hash changes after it
MaxEffects == 3

(* ------------------------- program constants --------------------------- *)
ERRNO_SUCCESS == 0
ERRNO_BADF == 8
\* new Uint8Array(8 * 1024): the BYOB buffer handed to reader.read
BufLen == 8192
\* Uint32Array.BYTES_PER_ELEMENT and the stride of one iovec
U32 == 4
IovecSize == 8
CLOCKID_REALTIME == 0
CLOCKID_MONOTONIC == 1
\* setBigUint64 stores 8 bytes
U64 == 8

(* --------------------- layout of the guest memory ---------------------- *)
\* The guest keeps a table of two iovecs at iovp, the result word of a
\* read / write at resp and its data from datap on; badp is a result pointer
\* whose 4 bytes do not fit into the memory.
Guest == [iovp |-> 0, resp |-> 16, datap |-> 20, badp |-> MemSize - 2]

Fds == 0..3
ExitCodes == 0..MaxExitCode
\* the iovec tables a guest sets up: <<off0, len0, off1, len1>>
IovecTables ==
  { <<20, 2, 24, 2>>,     \* two disjoint regions
    <<20, 1, 21, 3>>,     \* a short region followed by an adjacent one
    <<24, 2, 20, 0>>,     \* a zero-length second region
    <<MemSize - 2, 3, 20, 2>> }   \* a region that ends past the memory

(* ------------------------- DataView helpers ---------------------------- *)
InBounds(p, n) == p >= 0 /\ n >= 0 /\ p + n <= MemSize

RECURSIVE Pow256(_)
Pow256(k) == IF k = 0 THEN 1 ELSE 256 * Pow256(k - 1)

\* DataView.getUint32(p, true): little-endian
getUint32(m, p) ==
  m[p] + 256 * m[p + 1] + 65536 * m[p + 2] + 16777216 * m[p + 3]

\* DataView.setUint32(p, v, true): little-endian
setUint32(m, p, v) ==
  [a \in DOMAIN m |->
     IF a >= p /\ a < p + U32 THEN (v \div Pow256(a - p)) % 256 ELSE m[a]]

\* DataView.setBigUint64(p, v, true): little-endian
\* v is a 64-bit value held as its U64 bytes, lowest first
setBigUint64(m, p, v) ==
  [a \in DOMAIN m |-> IF a >= p /\ a < p + U64 THEN v[a - p + 1] ELSE m[a]]

RECURSIVE BigInt(_, _)
\* BigInt(n) for a number n >= 0, as k bytes lowest first
BigInt(n, k) ==
  IF k = 0 THEN <<>> ELSE <<n % 256>> \o BigInt(n \div 256, k - 1)

RECURSIVE bigMul(_, _, _)
\* v * f + carry, kept to the bytes of v (a product modulo 2^64)
bigMul(v, f, carry) ==
  IF v = <<>> THEN <<>>
  ELSE LET x == Head(v) * f + carry
       IN <<x % 256>> \o bigMul(Tail(v), f, x \div 256)

RECURSIVE bigAdd(_, _, _)
\* v + w + carry, kept to the bytes of v
bigAdd(v, w, carry) ==
  IF v = <<>> THEN <<>>
  ELSE LET x == Head(v) + Head(w) + carry
       IN <<x % 256>> \o bigAdd(Tail(v), Tail(w), x \div 256)

\* new Uint8Array(buffer).set(value, off)
setBytes(m, off, value) ==
  [a \in DOMAIN m |->
     IF a >= off /\ a < off + Len(value) THEN value[a - off + 1] ELSE m[a]]

\* new Uint8Array(buffer, off, len): the bytes the view shows
subarray(m, off, len) == [k \in 1..len |-> m[off + k - 1]]

Min(a, b) == IF a < b THEN a ELSE b

\* the memory a guest starts from: the iovec table, a zero result word and
\* data bytes that name their own address
InitialMemory(t) ==
  LET z == [a \in 0..(MemSize - 1) |-> IF a >= Guest.datap THEN a ELSE 0]
      p == Guest.iovp
  IN setUint32(setUint32(setUint32(setUint32(z, p, t[1]), p + 4, t[2]),
                         p + 8, t[3]), p + 12, t[4])

(* ---------------------------- TextEncoder ------------------------------ *)
\* A string is its sequence of UTF-16 code units.
IsHigh(c) == c >= 55296 /\ c <= 56319
IsLow(c) == c >= 56320 /\ c <= 57343

\* the UTF-8 bytes of one code point
utf8(cp) ==
  IF cp < 128 THEN <<cp>>
  ELSE IF cp < 2048 THEN <<192 + (cp \div 64), 128 + (cp % 64)>>
  ELSE IF cp < 65536
  THEN <<224 + (cp \div 4096), 128 + ((cp \div 64) % 64), 128 + (cp % 64)>>
  ELSE <<240 + (cp \div 262144), 128 + ((cp \div 4096) % 64),
         128 + ((cp \div 64) % 64), 128 + (cp % 64)>>

RECURSIVE encode(_)
\* new TextEncoder().encode(u): a surrogate pair is one code point, a lone
\* surrogate is replaced by U+FFFD
encode(u) ==
  IF u = <<>> THEN <<>>
  ELSE IF IsHigh(u[1]) /\ Len(u) >= 2 /\ IsLow(u[2])
  THEN utf8(65536 + (u[1] - 55296) * 1024 + (u[2] - 56320))
         \o encode(SubSeq(u, 3, Len(u)))
  ELSE IF IsHigh(u[1]) \/ IsLow(u[1]) THEN utf8(65533) \o encode(Tail(u))
  ELSE utf8(u[1]) \o encode(Tail(u))

\* the argument strings of an invocation: "", "a", "e-acute", "euro a", a
\* surrogate pair (U+1F600) and a lone high surrogate
ArgStrings ==
  { <<>>, <<97>>, <<233>>, <<8364, 97>>, <<55357, 56832>>, <<55357>> }

ArgLists == UNION {[1..n -> ArgStrings] : n \in 0..MaxArgs}

\* the argument list of the runs that are not about arguments: "p"
DefaultArgs == <<<<112>>>>

\* the bytes of an input of n bytes: 101, 102, ...
StdinBytes(n) == [k \in 1..n |-> 100 + k]

(* ------------------------------- state --------------------------------- *)
VARIABLES
  opts,       \* WasiOpts: which of stdin / stdout / stderr are configured
  instance,   \* the exports of the instantiated guest
  memoryRef,  \* "undefined" until start binds it, then "bound"
  mem,        \* the guest linear memory, address -> byte
  pc,         \* "created", "guest", "fd_read", "fd_write", "fd_close", "settled"
  outcome,    \* the promise of start / of the pandoc call
  stdin,      \* the readable byte stream opts.stdin
  sinks,      \* the writable streams opts.stdout (1) and opts.stderr (2)
  call,       \* the syscall in progress, or the last one made
  nsys        \* syscalls issued so far

vars == <<opts, instance, memoryRef, mem, pc, outcome, stdin, sinks, call, nsys>>

\* The page and its invocations (page.tsx, index.ts): render call r makes
\* invocation r, with its own wasi closure, instance, memory and streams.
VARIABLES
  pandocRef,   \* `let pandoc` of page.tsx: "undefined" or the promise's state
  compiles,    \* calls of WebAssembly.compileStreaming so far
  rpc,         \* where each render call is
  inv,         \* each invocation: where its guest is, and its syscall record
  memoryRefs,  \* the memoryRef cell of each wasi closure: 0 or a memory
  memories,    \* the memory of each instance
  streams      \* the stdin source and the stdout sink of each invocation

hvars == <<pandocRef, compiles, rpc, inv, memoryRefs, memories, streams>>

\* The component Page (page.tsx) and the link codec (wasi.ts, encode and
\* decode).
VARIABLES
  hash,        \* useHash(): the hash the page shows, or "null"
  cur,         \* the runs of the effect so far; the last is the current one
  effects,     \* each run: its hash, where it is, its signal.aborted
  err,         \* useState err: "null" or the message shown
  errBy,       \* the run that set err, 0 when err is "null"
  contentUrl,  \* useState contentUrl: 0 for null, or the run whose blob it is
  query,       \* the Query handed to encode
  encoded,     \* what encode returned
  decoded      \* what decode returned

uvars ==
  <<hash, cur, effects, err, errBy, contentUrl, query, encoded, decoded>>

\* values of call.ret besides an errno
RetPending == 0 - 1
RetThrew == 0 - 2

NoCall ==
  [name |-> "none", fd |-> 0, iovp |-> 0, iovlen |-> 0, resp |-> 0,
   i |-> 0, off |-> 0, len |-> 0, n |-> 0, ret |-> RetPending,
   iovs |-> <<>>, touched |-> {}, entryState |-> "none", avail |-> 0,
   entryCancelled |-> FALSE, mem0 |-> <<>>, rcv0 |-> <<0, 0>>,
   aw |-> "none", code |-> 0, err |-> "", ref0 |-> "undefined",
   data0 |-> <<>>, now |-> 0]

\* the record of a syscall on entry; mem0, ref0, entryState, entryCancelled,
\* avail, data0 and rcv0 remember the memory, the accessor, the input stream
\* and the number of chunks each sink had received, as the syscall found
\* them; now is the reading of performance.now() a clock call took
NewCall(name, fd, iovp, iovlen, resp) ==
  [NoCall EXCEPT !.name = name, !.fd = fd, !.iovp = iovp, !.iovlen = iovlen,
                 !.resp = resp, !.mem0 = mem, !.ref0 = memoryRef,
                 !.entryState = IF opts.stdin THEN stdin.state ELSE "none",
                 !.entryCancelled = stdin.cancelled,
                 !.avail = Len(stdin.data), !.data0 = stdin.data,
                 !.rcv0 = <<Len(sinks[1].received), Len(sinks[2].received)>>]

Pending == [kind |-> "pending", code |-> 0 - 1, error |-> ""]

(* --------------------------- Exit and start ---------------------------- *)
\* the values a syscall throws
Exit(code) == [type |-> "Exit", code |-> code, message |-> "Exit"]
Error(message) == [type |-> "Error", code |-> 0 - 1, message |-> message]

\* the promise of the pandoc call of index.ts, which awaits start's
pandoc(o) == IF o.kind = "resolved" THEN "resolved" ELSE o.kind

\* a start that takes only Exit(0) for a normal end
startCatch_zero_only(e) ==
  IF e.type # "Exit" \/ e.code # 0
  THEN [kind |-> "rejected", code |-> 0 - 1, error |-> e.message]
  ELSE [kind |-> "resolved", code |-> e.code, error |-> ""]

\* a start that turns every other error into exit code 1
startCatch_swallow(e) ==
  [kind |-> "resolved", code |-> IF e.type = "Exit" THEN e.code ELSE 1,
   error |-> ""]

\* start's try / catch around the entry point: an Exit resolves with its
\* code, anything else is thrown again
startCatch(e) ==
  IF e.type # "Exit"
  THEN [kind |-> "rejected", code |-> 0 - 1, error |-> e.message]
  ELSE [kind |-> "resolved", code |-> e.code, error |-> ""]

\* a dispose that forgets the lock
releaseLock_leak(s) == s

\* an accessor that hands out the memory without looking at memoryRef
memoryBound_unchecked == TRUE

\* memory(): the accessor gives the memory once start has bound it and
\* throws before
memoryBound == memoryRef # "undefined"

\* ReadableStream / WritableStream lock release, run by the DisposableStack
\* of fd_read / fd_write on every way out of the call
releaseLock(s) == [s EXCEPT !.locked = FALSE]

(* ------------------------------- Init ---------------------------------- *)
\* cancelled remembers that a cancel() of the stream was fulfilled
Readable(n) ==
  [state |-> "readable", data |-> StdinBytes(n), locked |-> FALSE,
   cancelled |-> FALSE]

Writable ==
  [state |-> "writable", received |-> <<>>, pending |-> <<>>,
   wr |-> "none", locked |-> FALSE]

\* a memory the guest has not cleared: no byte of it is 0
UsedMemory == [a \in 0..(MemSize - 1) |-> 127]

(* ------------------------ the page, before a render -------------------- *)
Renders == 1..MaxRenders

\* what is each invocation's own: the argument list render r passes, the
\* bytes its stdin delivers and the memory its instance starts with
ArgsOf(r) == << <<48 + r>> >>
StdinOf(r) == <<100 + r>>
FreshMemory(r) == [args |-> <<>>, buf |-> <<200 + r>>]

\* overlap: the guest began while the guest of render 1 was suspended in a
\* syscall, and render 1 has stayed in that syscall since
NoInv ==
  [pc |-> "none", n |-> 0, last |-> "none", ret |-> 0, overlap |-> FALSE]
NoStreams == [src |-> "slow", pending |-> <<>>, received |-> <<>>]

\* `let pandoc` is undefined and no render has been called
PageLoaded ==
  /\ pandocRef = "undefined"
  /\ compiles = 0
  /\ rpc = [r \in Renders |-> "idle"]
  /\ inv = [r \in Renders |-> NoInv]
  /\ memoryRefs = [r \in Renders |-> 0]
  /\ memories = [r \in Renders |-> FreshMemory(r)]
  /\ streams = [r \in Renders |-> NoStreams]

(* ---------------- the component and the codec, at rest ------------------ *)
Effects == 1..MaxEffects
NoEffect == [hash |-> "null", pc |-> "none", aborted |-> FALSE]
Nothing == [kind |-> "none"]

\* Page is not mounted yet: err and contentUrl hold useState's null
Unmounted ==
  /\ hash = "null"
  /\ cur = 0
  /\ effects = [e \in Effects |-> NoEffect]
  /\ err = "null"
  /\ errBy = 0
  /\ contentUrl = 0

\* no link is being encoded
NoLink ==
  /\ query = [url |-> <<>>, args |-> <<>>]
  /\ encoded = Nothing
  /\ decoded = Nothing

\* the state after wasi(opts), for the argument lists and memories given
InitWith(argLists, mems) ==
  /\ opts \in [args : argLists, stdin : BOOLEAN, stdout : BOOLEAN,
               stderr : BOOLEAN]
  /\ instance \in [memory : BOOLEAN, _start : BOOLEAN]
  /\ memoryRef = "undefined"
  /\ mem \in mems
  /\ pc = "created"
  /\ outcome = Pending
  /\ \E n \in 0..MaxStdin : stdin = Readable(IF opts.stdin THEN n ELSE 0)
  /\ sinks = [f \in {1, 2} |-> Writable]
  /\ call = NoCall
  /\ nsys = 0
  /\ PageLoaded
  /\ Unmounted

Init ==
  /\ InitWith({DefaultArgs}, {InitialMemory(t) : t \in IovecTables})
  /\ NoLink

(* ----------------------- ways out of a syscall -------------------------- *)
\* the syscall returns errno to the guest
Return(c, errno, m, s, k) ==
  /\ call' = [c EXCEPT !.ret = errno]
  /\ mem' = m
  /\ stdin' = s
  /\ sinks' = k
  /\ pc' = "guest"
  /\ UNCHANGED outcome

\* the syscall throws e: the entry point's promise rejects and start's
\* catch decides the outcome
Throw(c, e, m, s, k) ==
  /\ call' = [c EXCEPT !.ret = RetThrew, !.err = e.message]
  /\ mem' = m
  /\ stdin' = s
  /\ sinks' = k
  /\ pc' = "settled"
  /\ outcome' = startCatch(e)

\* the syscall awaits a stream: the guest stays suspended in `at`
Suspend(c, at, m, s, k) ==
  /\ call' = c
  /\ mem' = m
  /\ stdin' = s
  /\ sinks' = k
  /\ pc' = at
  /\ UNCHANGED outcome

(* ------------------------------- start --------------------------------- *)
\* index.ts instantiates and calls start, which checks the exports, binds
\* the memory and runs the entry point
\* a start that runs the entry point without looking at the exports
start_no_check ==
  /\ pc = "created"
  /\ memoryRef' = "bound"
  /\ pc' = "guest"
  /\ UNCHANGED <<uvars, hvars, opts, instance, mem, stdin, sinks, call, nsys, outcome>>

start ==
  /\ pc = "created"
  /\ IF ~instance.memory
     THEN /\ pc' = "settled"
          /\ outcome' = [kind |-> "rejected", code |-> 0 - 1, error |-> "Error"]
          /\ UNCHANGED memoryRef
     ELSE /\ memoryRef' = "bound"
          /\ IF ~instance._start
             THEN /\ pc' = "settled"
                  /\ outcome' =
                       [kind |-> "rejected", code |-> 0 - 1, error |-> "Error"]
             ELSE /\ pc' = "guest"
                  /\ UNCHANGED outcome
  /\ UNCHANGED <<uvars, hvars, opts, instance, mem, stdin, sinks, call, nsys>>

\* the entry point returns without proc_exit: start throws "Unreachable"
\* a start that takes a returning entry point for exit code 0
guest_return_resolves ==
  /\ pc = "guest"
  /\ pc' = "settled"
  /\ outcome' = [kind |-> "resolved", code |-> 0, error |-> ""]
  /\ UNCHANGED <<uvars, hvars, opts, instance, memoryRef, mem, stdin, sinks, call, nsys>>

guest_return ==
  /\ pc = "guest"
  /\ pc' = "settled"
  /\ outcome' = [kind |-> "rejected", code |-> 0 - 1, error |-> "Unreachable"]
  /\ UNCHANGED <<uvars, hvars, opts, instance, memoryRef, mem, stdin, sinks, call, nsys>>

(* ------------------------- syscalls: the rest --------------------------- *)
Enter == pc = "guest" /\ nsys < MaxSyscalls /\ nsys' = nsys + 1

\* a proc_exit that returns to the guest
proc_exit_returns(code) ==
  /\ Enter
  /\ Return([NewCall("proc_exit", 0, 0, 0, 0) EXCEPT !.code = code],
            ERRNO_SUCCESS, mem, stdin, sinks)
  /\ UNCHANGED <<uvars, hvars, opts, instance, memoryRef>>

proc_exit(code) ==
  /\ Enter
  /\ Throw([NewCall("proc_exit", 0, 0, 0, 0) EXCEPT !.code = code], Exit(code),
           mem, stdin, sinks)
  /\ UNCHANGED <<uvars, hvars, opts, instance, memoryRef>>

\* environ_get, fd_seek, path_open, random_get, ...: todo(name)
todo ==
  /\ Enter
  /\ Throw(NewCall("todo", 0, 0, 0, 0), Error("Not implemented"),
           mem, stdin, sinks)
  /\ UNCHANGED <<uvars, hvars, opts, instance, memoryRef>>

\* the guest passes the addresses of its count and size words; the
\* function takes no parameter and stores nothing
environ_sizes_get(countp, sizep) ==
  /\ Enter
  /\ Return(NewCall("environ_sizes_get", 0, countp, 0, sizep), ERRNO_SUCCESS,
            mem, stdin, sinks)
  /\ UNCHANGED <<uvars, hvars, opts, instance, memoryRef>>

fd_prestat_get ==
  /\ Enter
  /\ Return(NewCall("fd_prestat_get", 0, 0, 0, 0), ERRNO_BADF,
            mem, stdin, sinks)
  /\ UNCHANGED <<uvars, hvars, opts, instance, memoryRef>>

(* ------------------- args_sizes_get, args_get, clock -------------------- *)
\* what a synchronous syscall does to memory m: <<memory, errno or RetThrew,
\* message thrown>>
Did(m, errno) == [mem |-> m, ret |-> errno, err |-> ""]
Threw(m, message) == [mem |-> m, ret |-> RetThrew, err |-> message]

RECURSIVE joinArgs(_)
\* opts.args.map((v) => `${v}\0`).join("")
joinArgs(args) ==
  IF args = <<>> THEN <<>>
  ELSE (Head(args) \o <<0>>) \o joinArgs(Tail(args))

args_sizes_get_do(m, argcp, arglenp) ==
  LET argc == Len(opts.args)
      args == encode(joinArgs(opts.args))
  IN IF ~memoryBound THEN Threw(m, "Error")
     ELSE IF ~InBounds(argcp, U32) THEN Threw(m, "RangeError")
     ELSE LET m1 == setUint32(m, argcp, argc) IN
          IF ~InBounds(arglenp, U32) THEN Threw(m1, "RangeError")
          ELSE Did(setUint32(m1, arglenp, Len(args)), ERRNO_SUCCESS)

\* a terminator that is counted but its byte not stored
argData_no_null(arg) == encode(arg)

\* encoder.encode(`${arg}\0`)
argData(arg) == encode(arg \o <<0>>)

RECURSIVE args_get_loop(_, _, _, _)
\* for (const arg of opts.args) { ... }
args_get_loop(m, args, argvp, argbp) ==
  IF args = <<>> THEN Did(m, ERRNO_SUCCESS)
  ELSE IF ~InBounds(argvp, U32) THEN Threw(m, "RangeError")
  ELSE LET m1 == setUint32(m, argvp, argbp)
           data == argData(Head(args))
       IN IF ~InBounds(argbp, Len(data)) THEN Threw(m1, "RangeError")
          ELSE args_get_loop(setBytes(m1, argbp, data), Tail(args),
                             argvp + U32, argbp + Len(data))

args_get_do(m, argvp, argbp) ==
  IF ~memoryBound THEN Threw(m, "Error")
  ELSE args_get_loop(m, opts.args, argvp, argbp)

\* The host clocks: Date.now() in whole milliseconds, performance.now() in
\* milliseconds with a fraction, held here in microseconds. Both stay below
\* 2^31, where x | 0 drops the fraction and nothing else.
\* CLOCKID_MONOTONIC: s = now | 0; ms = ((now - s) * 1_000) | 0;
\* v = BigInt(s) * 1_000_000_000n + BigInt(ms) * 1_000_000n
monotonic(perf) ==
  LET s == perf \div 1000
      ms == perf - s * 1000
  IN bigAdd(bigMul(bigMul(BigInt(s, U64), 1000000, 0), 1000, 0),
            bigMul(BigInt(ms, U64), 1000000, 0), 0)

\* CLOCKID_REALTIME: BigInt(Date.now() * 1_000_000)
realtime(date) == bigMul(BigInt(date, U64), 1000000, 0)

clock_time_get_do(m, id, t, offset) ==
  IF id \notin {CLOCKID_REALTIME, CLOCKID_MONOTONIC}
  THEN Threw(m, "Not implemented")
  ELSE IF ~memoryBound THEN Threw(m, "Error")
  ELSE IF ~InBounds(offset, U64) THEN Threw(m, "RangeError")
  ELSE Did(setBigUint64(m, offset,
                        IF id = CLOCKID_REALTIME THEN realtime(t.date)
                        ELSE monotonic(t.perf)),
           ERRNO_SUCCESS)

\* a synchronous syscall called by the running guest
Sync(c, r) ==
  IF r.ret = RetThrew THEN Throw(c, Error(r.err), r.mem, stdin, sinks)
  ELSE Return(c, r.ret, r.mem, stdin, sinks)

args_sizes_get(argcp, arglenp) ==
  /\ Enter
  /\ Sync(NewCall("args_sizes_get", 0, argcp, 0, arglenp),
          args_sizes_get_do(mem, argcp, arglenp))
  /\ UNCHANGED <<uvars, hvars, opts, instance, memoryRef>>

args_get(argvp, argbp) ==
  /\ Enter
  /\ Sync(NewCall("args_get", 0, argvp, 0, argbp),
          args_get_do(mem, argvp, argbp))
  /\ UNCHANGED <<uvars, hvars, opts, instance, memoryRef>>

clock_time_get(id, t, offset) ==
  /\ Enter
  /\ Sync([NewCall("clock_time_get", 0, 0, 0, offset) EXCEPT
            !.code = id, !.now = t.perf],
          clock_time_get_do(mem, id, t, offset))
  /\ UNCHANGED <<uvars, hvars, opts, instance, memoryRef>>

(* ------------------------------ fd_read -------------------------------- *)
\* the length of the buffer fd_read hands to reader.read for an iovec of
\* len bytes: a buffer shorter than len is replaced by a new one of the
\* same length, and the buffer a read gives back has that length too
readBuffer(len) == IF len > BufLen THEN BufLen ELSE BufLen

\* after the loop: view.setUint32(nreadp, nread, true); return ERRNO_SUCCESS
fd_read_done(c, m, s) ==
  IF ~InBounds(c.resp, U32)
  THEN Throw(c, Error("RangeError"), m, releaseLock(s), sinks)
  ELSE Return(c, ERRNO_SUCCESS, setUint32(m, c.resp, c.n), releaseLock(s),
              sinks)

\* the head of the loop: parse iovec i and await reader.read(buf)
fd_read_loop(c, m, s) ==
  IF c.i < c.iovlen
  THEN LET p == c.iovp + c.i * IovecSize IN
       IF ~InBounds(p, IovecSize)
       THEN Throw(c, Error("RangeError"), m, releaseLock(s), sinks)
       ELSE LET off == getUint32(m, p)
                len == getUint32(m, p + U32)
            IN Suspend([c EXCEPT !.off = off, !.len = len,
                                 !.iovs = Append(@, <<off, len>>)],
                       "fd_read", m, s, sinks)
  ELSE fd_read_done(c, m, s)

fd_read(fd, iovp, iovlen, nreadp) ==
  /\ Enter
  /\ LET c == NewCall("fd_read", fd, iovp, iovlen, nreadp) IN
     IF fd # 0 THEN Return(c, ERRNO_BADF, mem, stdin, sinks)
     ELSE IF ~opts.stdin THEN Return(c, ERRNO_BADF, mem, stdin, sinks)
     ELSE IF stdin.locked
     THEN Throw(c, Error("TypeError"), mem, stdin, sinks)
     ELSE LET s == [stdin EXCEPT !.locked = TRUE] IN
          IF ~memoryBound
          THEN Throw(c, Error("Error"), mem, releaseLock(s), sinks)
          ELSE fd_read_loop(c, mem, s)
  /\ UNCHANGED <<uvars, hvars, opts, instance, memoryRef>>

\* reader.read(buf) settles and fd_read runs on to its next await or to
\* its end.  The stream gives what it has, at most the length of buf.
fd_read_settle ==
  /\ pc = "fd_read"
  /\ \/ /\ stdin.state = "errored"
        /\ Throw(call, Error("StreamError"), mem, releaseLock(stdin), sinks)
     \/ /\ stdin.state = "readable"
        /\ stdin.data # <<>>
        /\ \E n \in 1..Min(Len(stdin.data), readBuffer(call.len)) :
             LET value == SubSeq(stdin.data, 1, n)
                 s == [stdin EXCEPT !.data = SubSeq(@, n + 1, Len(@))]
             IN IF ~InBounds(call.off, Len(value))
                THEN Throw(call, Error("RangeError"), mem, releaseLock(s),
                           sinks)
                ELSE fd_read_loop(
                       [call EXCEPT
                          !.n = @ + Len(value), !.i = @ + 1,
                          !.touched =
                             @ \cup (call.off..(call.off + Len(value) - 1))],
                       setBytes(mem, call.off, value), s)
     \/ /\ \/ stdin.state = "closed"
           \/ stdin.state = "readable" /\ stdin.data = <<>>
        /\ LET s == [stdin EXCEPT !.state = "closed"] IN
           IF ~InBounds(call.off, 0)
           THEN Throw(call, Error("RangeError"), mem, releaseLock(s), sinks)
           ELSE fd_read_done(call, mem, s)
  /\ UNCHANGED <<uvars, hvars, opts, instance, memoryRef, nsys>>

(* ------------------------------ fd_close ------------------------------- *)
\* a cancel that reports success and leaves the stream as it is
cancel_noop(s) == <<s, "fulfilled">>

\* ReadableStream.cancel(): <<the stream afterwards, the promise>>
cancel(s) ==
  IF s.locked THEN <<s, "rejected">>
  ELSE IF s.state = "closed" THEN <<s, "fulfilled">>
  ELSE IF s.state = "errored" THEN <<s, "rejected">>
  ELSE <<[s EXCEPT !.state = "closed", !.data = <<>>], "fulfilled">>

\* an fd_close whose switch has no default: every descriptor is the input
fd_close_no_default(fd) ==
  /\ Enter
  /\ LET c == NewCall("fd_close", fd, 0, 0, 0)
         r == cancel(stdin)
     IN Suspend([c EXCEPT !.aw = r[2]], "fd_close", mem, r[1], sinks)
  /\ UNCHANGED <<uvars, hvars, opts, instance, memoryRef>>

fd_close(fd) ==
  /\ Enter
  /\ LET c == NewCall("fd_close", fd, 0, 0, 0) IN
     IF fd = 0
     THEN IF opts.stdin
          THEN LET r == cancel(stdin) IN
               Suspend([c EXCEPT !.aw = r[2]], "fd_close", mem,
                       [r[1] EXCEPT !.cancelled = @ \/ r[2] = "fulfilled"],
                       sinks)
          ELSE Suspend([c EXCEPT !.aw = "fulfilled"], "fd_close", mem, stdin,
                       sinks)
     ELSE Return(c, ERRNO_BADF, mem, stdin, sinks)
  /\ UNCHANGED <<uvars, hvars, opts, instance, memoryRef>>

\* await opts.stdin?.cancel() settles
fd_close_settle ==
  /\ pc = "fd_close"
  /\ IF call.aw = "rejected"
     THEN Throw(call, Error("StreamError"), mem, stdin, sinks)
     ELSE Return(call, ERRNO_SUCCESS, mem, stdin, sinks)
  /\ UNCHANGED <<uvars, hvars, opts, instance, memoryRef, nsys>>

(* ------------------------------ fd_write ------------------------------- *)
\* a check that takes every sink for configured
Configured_always(fd) == TRUE

\* opts.stdout, opts.stderr
Configured(fd) == IF fd = 1 THEN opts.stdout ELSE opts.stderr

\* a write that skips empty chunks
write_skip_empty(k, fd, chunk) ==
  IF chunk = <<>> THEN k
  ELSE IF k[fd].state = "errored"
  THEN [k EXCEPT ![fd].wr = "rejected"]
  ELSE [k EXCEPT ![fd].pending = Append(@, chunk), ![fd].wr = "pending"]

\* writer.write(chunk) on sink fd: the chunk is queued for the sink and the
\* promise is pending, or rejected at once by an errored stream
write(k, fd, chunk) ==
  IF k[fd].state = "errored"
  THEN [k EXCEPT ![fd].wr = "rejected"]
  ELSE [k EXCEPT ![fd].pending = Append(@, chunk), ![fd].wr = "pending"]

\* a write that is not awaited
writeSettled_no_await(w) == TRUE

\* `await writer.write(chunk)`: fd_write runs on when the promise settled
writeSettled(w) == w.wr # "pending"

\* the head of the loop: parse iovec i and await writer.write(chunk), or,
\* after the loop, store nwritten and return
fd_write_loop(c, k) ==
  IF c.i < c.iovlen
  THEN LET p == c.iovp + c.i * IovecSize IN
       IF ~InBounds(p, IovecSize)
       THEN Throw(c, Error("RangeError"), mem, stdin,
                  [k EXCEPT ![c.fd] = releaseLock(@)])
       ELSE LET off == getUint32(mem, p)
                len == getUint32(mem, p + U32)
            IN IF ~InBounds(off, len)
               THEN Throw(c, Error("RangeError"), mem, stdin,
                          [k EXCEPT ![c.fd] = releaseLock(@)])
               ELSE Suspend([c EXCEPT !.off = off, !.len = len,
                                      !.iovs = Append(@, <<off, len>>)],
                            "fd_write", mem, stdin,
                            write(k, c.fd, subarray(mem, off, len)))
  ELSE IF ~InBounds(c.resp, U32)
       THEN Throw(c, Error("RangeError"), mem, stdin,
                  [k EXCEPT ![c.fd] = releaseLock(@)])
       ELSE Return(c, ERRNO_SUCCESS, setUint32(mem, c.resp, c.n), stdin,
                   [k EXCEPT ![c.fd] = releaseLock(@)])

fd_write(fd, iovp, iovlen, nwrittenp) ==
  /\ Enter
  /\ LET c == NewCall("fd_write", fd, iovp, iovlen, nwrittenp) IN
     IF fd \notin {1, 2} THEN Return(c, ERRNO_BADF, mem, stdin, sinks)
     ELSE IF ~Configured(fd) THEN Return(c, ERRNO_SUCCESS, mem, stdin, sinks)
     ELSE IF sinks[fd].locked
     THEN Throw(c, Error("TypeError"), mem, stdin, sinks)
     ELSE LET k == [sinks EXCEPT ![fd].locked = TRUE] IN
          IF ~memoryBound
          THEN Throw(c, Error("Error"), mem, stdin,
                     [k EXCEPT ![fd] = releaseLock(@)])
          ELSE fd_write_loop(c, k)
  /\ UNCHANGED <<uvars, hvars, opts, instance, memoryRef>>

\* the awaited write settled: count the chunk and go round the loop, or
\* throw what the sink rejected with
fd_write_settle ==
  /\ pc = "fd_write"
  /\ writeSettled(sinks[call.fd])
  /\ LET k == [sinks EXCEPT ![call.fd].wr = "none"] IN
     IF sinks[call.fd].wr = "rejected"
     THEN Throw(call, Error("StreamError"), mem, stdin,
                [k EXCEPT ![call.fd] = releaseLock(@)])
     ELSE fd_write_loop([call EXCEPT !.n = @ + call.len, !.i = @ + 1], k)
  /\ UNCHANGED <<uvars, hvars, opts, instance, memoryRef, nsys>>

(* ------------------------- the host's streams -------------------------- *)
Running == pc \in {"guest", "fd_read", "fd_write", "fd_close"}

\* the underlying sink takes the oldest queued chunk; its write resolves
sink_accept(f) ==
  /\ sinks[f].state = "writable"
  /\ sinks[f].pending # <<>>
  /\ sinks' = [sinks EXCEPT
                 ![f].received = Append(@, Head(sinks[f].pending)),
                 ![f].pending = Tail(@),
                 ![f].wr = IF Len(sinks[f].pending) = 1 /\ @ = "pending"
                           THEN "fulfilled" ELSE @]
  /\ UNCHANGED <<uvars, hvars, opts, instance, memoryRef, mem, pc, outcome, stdin, call,
                 nsys>>

\* the underlying sink fails in the middle of an fd_write to it: queued
\* chunks are dropped, their writes reject
sink_error(f) ==
  /\ pc = "fd_write"
  /\ call.fd = f
  /\ sinks[f].state = "writable"
  /\ sinks' = [sinks EXCEPT
                 ![f].state = "errored",
                 ![f].pending = <<>>,
                 ![f].wr = IF @ = "pending" THEN "rejected" ELSE @]
  /\ UNCHANGED <<uvars, hvars, opts, instance, memoryRef, mem, pc, outcome, stdin, call,
                 nsys>>

\* the underlying source fails (a network error of a response body)
source_error ==
  /\ Running
  /\ opts.stdin
  /\ stdin.state = "readable"
  /\ stdin' = [stdin EXCEPT !.state = "errored", !.data = <<>>]
  /\ UNCHANGED <<uvars, hvars, opts, instance, memoryRef, mem, pc, outcome, sinks, call,
                 nsys>>

\* the host abandons the invocation: it cancels the input stream, which it
\* can do only while no reader holds the stream
host_cancel ==
  /\ Running
  /\ opts.stdin
  /\ stdin.state = "readable"
  /\ ~stdin.locked
  /\ stdin' = [cancel(stdin)[1] EXCEPT !.cancelled = TRUE]
  /\ UNCHANGED <<uvars, hvars, opts, instance, memoryRef, mem, pc, outcome, sinks, call,
                 nsys>>

(* ------------------------------- Next ---------------------------------- *)
IovLens == 0..2
ResultPointers == {Guest.resp, Guest.badp}

\* the arguments the guest passes to fd_read and fd_write: every iovec count
\* and result pointer on the descriptors that reach the stream, one call on
\* each of the others
ReadArgs ==
  ({0} \X IovLens \X ResultPointers)
    \cup ((Fds \ {0}) \X {2} \X {Guest.resp})

WriteArgs ==
  ({1, 2} \X IovLens \X ResultPointers)
    \cup ((Fds \ {1, 2}) \X {2} \X {Guest.resp})

\* the pointers the guest passes to args_sizes_get and to args_get, for a
\* free region at base: the vector first and the buffer right behind it, or
\* the buffer first
ArgsSizesArgs(base) == {<<base, base + U32>>}
ArgsGetArgs(base) ==
  { <<base, base + U32 * Len(opts.args)>>,
    <<base + Len(encode(joinArgs(opts.args))), base>> }

\* the pointers it passes to environ_sizes_get: the words of its first iovec
EnvironArgs == {<<Guest.iovp, Guest.iovp + U32>>}

\* clock ids, and readings of Date.now() and performance.now()
ClockIds == {CLOCKID_REALTIME, CLOCKID_MONOTONIC, 2}
Times == {[date |-> 3, perf |-> 2000], [date |-> 3, perf |-> 2500]}
\* the ids clock_time_get has no case for
OtherClockIds == ClockIds \ {CLOCKID_REALTIME, CLOCKID_MONOTONIC}

Next ==
  \/ start
  \/ guest_return
  \/ \E code \in ExitCodes : proc_exit(code)
  \/ todo
  \/ \E a \in EnvironArgs : environ_sizes_get(a[1], a[2])
  \/ \E id \in OtherClockIds, t \in Times : clock_time_get(id, t, Guest.resp)
  \/ fd_prestat_get
  \/ \E a \in ReadArgs : fd_read(a[1], Guest.iovp, a[2], a[3])
  \/ fd_read_settle
  \/ \E fd \in Fds : fd_close(fd)
  \/ fd_close_settle
  \/ \E a \in WriteArgs : fd_write(a[1], Guest.iovp, a[2], a[3])
  \/ fd_write_settle
  \/ \E f \in {1, 2} : sink_accept(f)
  \/ \E f \in {1, 2} : sink_error(f)
  \/ source_error
  \/ host_cancel

Spec == Init /\ [][Next]_<<vars, hvars, uvars>>

(* ------------- a guest that reads its arguments and the clock ----------- *)
\* An import called while WebAssembly.instantiate runs, before start has
\* bound the memory (index.ts hands the imports to instantiate, and a start
\* function of the module runs there): what the import throws rejects
\* instantiate, and with it the pandoc call.
Early(c, r) ==
  /\ pc = "created"
  /\ call = NoCall
  /\ IF r.ret = RetThrew
     THEN /\ call' = [c EXCEPT !.ret = RetThrew, !.err = r.err]
          /\ pc' = "settled"
          /\ outcome' = [kind |-> "rejected", code |-> 0 - 1, error |-> r.err]
     ELSE /\ call' = [c EXCEPT !.ret = r.ret]
          /\ UNCHANGED <<pc, outcome>>
  /\ mem' = r.mem
  /\ UNCHANGED <<uvars, hvars, opts, instance, memoryRef, stdin, sinks, nsys>>

early_args_sizes_get(argcp, arglenp) ==
  Early(NewCall("args_sizes_get", 0, argcp, 0, arglenp),
        args_sizes_get_do(mem, argcp, arglenp))

early_args_get(argvp, argbp) ==
  Early(NewCall("args_get", 0, argvp, 0, argbp),
        args_get_do(mem, argvp, argbp))

early_clock_time_get(id, t, offset) ==
  Early([NewCall("clock_time_get", 0, 0, 0, offset) EXCEPT !.code = id],
        clock_time_get_do(mem, id, t, offset))

InitArgs ==
  /\ InitWith(ArgLists, {UsedMemory})
  /\ NoLink
  /\ ~opts.stdin
  /\ ~opts.stdout
  /\ ~opts.stderr

NextArgs ==
  \/ start
  \/ guest_return
  \/ \E code \in ExitCodes : proc_exit(code)
  \/ \E a \in ArgsSizesArgs(Guest.iovp) : args_sizes_get(a[1], a[2])
  \/ \E a \in ArgsGetArgs(Guest.iovp) : args_get(a[1], a[2])
  \/ \E id \in ClockIds, t \in Times : clock_time_get(id, t, Guest.resp)
  \/ \E a \in ArgsSizesArgs(Guest.iovp) : early_args_sizes_get(a[1], a[2])
  \/ \E a \in ArgsGetArgs(Guest.iovp) : early_args_get(a[1], a[2])
  \/ \E id \in ClockIds, t \in Times :
       early_clock_time_get(id, t, Guest.resp)

SpecArgs == InitArgs /\ [][NextArgs]_<<vars, hvars, uvars>>

(* ------------------- the page and several invocations ------------------- *)
\* a host whose thread stays in a syscall until its stream operation settles
HostFree_blocked(r) ==
  \A q \in Renders \ {r} : inv[q].pc \notin {"fd_read", "fd_write", "fd_close"}

\* fd_read, fd_write and fd_close are WebAssembly.Suspending imports and
\* the entry point runs under WebAssembly.promising: a guest that awaits
\* in a syscall gives the event loop back, so a task of any other render
\* can run
HostFree(r) == TRUE

\* a page that starts a compilation unless one has succeeded
needsPandoc_unless_fulfilled == pandocRef # "fulfilled"

\* the left side of `pandoc ??= newPandoc({})`
needsPandoc == pandocRef = "undefined"

\* a memoryRef declared once for the module instead of inside wasi()
memoryCell_shared(r) == 1

\* the memoryRef cell the syscalls of invocation r close over: the one that
\* the wasi() call of r declared
memoryCell(r) == r

\* memory() of invocation r
memoryOf(r) == memoryRefs[memoryCell(r)]

Suspended(r) == inv[r].pc \in {"fd_read", "fd_write", "fd_close"}

\* render(href, args) is called and awaits fetchContent
render(r) ==
  /\ HostFree(r)
  /\ rpc[r] = "idle"
  /\ rpc' = [rpc EXCEPT ![r] = "fetchContent"]
  /\ UNCHANGED <<pandocRef, compiles, inv, memoryRefs, memories, streams>>
  /\ UNCHANGED <<vars, uvars>>

\* fetchContent settled: render rejects, or goes on to
\* `await (pandoc ??= newPandoc({}))`, where newPandoc runs as far as
\* `await WebAssembly.compileStreaming(fetchWasm())`
fetchContent_settle(r, ok) ==
  /\ HostFree(r)
  /\ rpc[r] = "fetchContent"
  /\ IF ~ok
     THEN /\ rpc' = [rpc EXCEPT ![r] = "rejected"]
          /\ UNCHANGED <<pandocRef, compiles>>
     ELSE /\ rpc' = [rpc EXCEPT ![r] = "awaitPandoc"]
          /\ IF needsPandoc
             THEN pandocRef' = "pending" /\ compiles' = compiles + 1
             ELSE UNCHANGED <<pandocRef, compiles>>
  /\ UNCHANGED <<inv, memoryRefs, memories, streams>>
  /\ UNCHANGED <<vars, uvars>>

\* compileStreaming settled, and with it the promise newPandoc returned
compileStreaming_settle(ok) ==
  /\ pandocRef = "pending"
  /\ pandocRef' = IF ok THEN "fulfilled" ELSE "rejected"
  /\ UNCHANGED <<compiles, rpc, inv, memoryRefs, memories, streams>>
  /\ UNCHANGED <<vars, uvars>>

\* the awaited pandoc promise settled: render rejects, or calls fn(opts),
\* which makes its wasi closure and awaits WebAssembly.instantiate
newPandoc_fn(r) ==
  /\ HostFree(r)
  /\ rpc[r] = "awaitPandoc"
  /\ pandocRef \in {"fulfilled", "rejected"}
  /\ IF pandocRef = "rejected"
     THEN /\ rpc' = [rpc EXCEPT ![r] = "rejected"]
          /\ UNCHANGED inv
     ELSE /\ rpc' = [rpc EXCEPT ![r] = "awaitFn"]
          /\ inv' = [inv EXCEPT ![r].pc = "instantiate"]
  /\ UNCHANGED <<pandocRef, compiles, memoryRefs, memories, streams>>
  /\ UNCHANGED <<vars, uvars>>

\* instantiate settled with the instance of r; start binds the memory of
\* that instance and runs the entry point
instantiate_settle(r) ==
  /\ HostFree(r)
  /\ inv[r].pc = "instantiate"
  /\ memoryRefs' = [memoryRefs EXCEPT ![memoryCell(r)] = r]
  /\ inv' = [inv EXCEPT ![r].pc = "guest",
                        ![r].overlap = (r # 1 /\ Suspended(1))]
  /\ UNCHANGED <<pandocRef, compiles, rpc, memories, streams>>
  /\ UNCHANGED <<vars, uvars>>

\* The guests of the page read their arguments, read stdin, write stdout,
\* close stdin and exit, each at most once and in this order.
Stage ==
  [args_get |-> 1, fd_read |-> 2, fd_write |-> 3, fd_close |-> 4,
   proc_exit |-> 5]

\* the guest of r is running and calls the syscall of stage k
Calls(r, k) == HostFree(r) /\ inv[r].pc = "guest" /\ inv[r].n < k

\* the guest of r goes on after syscall `name` returned ret
Resumed(r, name, ret) ==
  [q \in Renders |->
     IF q = r
     THEN [inv[q] EXCEPT !.pc = "guest", !.last = name, !.ret = ret]
     ELSE [inv[q] EXCEPT !.overlap = (@ /\ r # 1)]]

inv_args_get(r) ==
  /\ Calls(r, Stage.args_get)
  /\ memories' = [memories EXCEPT
                    ![memoryOf(r)].args = encode(joinArgs(ArgsOf(r)))]
  /\ inv' = [inv EXCEPT ![r].n = Stage.args_get, ![r].last = "args_get",
                        ![r].ret = ERRNO_SUCCESS]
  /\ UNCHANGED <<pandocRef, compiles, rpc, memoryRefs, streams>>
  /\ UNCHANGED <<vars, uvars>>

\* fd_read(0, ..) awaits reader.read
inv_fd_read(r) ==
  /\ Calls(r, Stage.fd_read)
  /\ inv' = [inv EXCEPT ![r].n = Stage.fd_read, ![r].pc = "fd_read"]
  /\ UNCHANGED <<pandocRef, compiles, rpc, memoryRefs, memories, streams>>
  /\ UNCHANGED <<vars, uvars>>

\* the read settled: the chunk is copied into the memory and counted
inv_fd_read_settle(r) ==
  /\ HostFree(r)
  /\ inv[r].pc = "fd_read"
  /\ streams[r].src # "slow"
  /\ IF streams[r].src = "ready"
     THEN /\ memories' = [memories EXCEPT ![memoryOf(r)].buf = StdinOf(r)]
          /\ streams' = [streams EXCEPT ![r].src = "done"]
          /\ inv' = Resumed(r, "fd_read", Len(StdinOf(r)))
     ELSE /\ inv' = Resumed(r, "fd_read", 0)
          /\ UNCHANGED <<memories, streams>>
  /\ UNCHANGED <<pandocRef, compiles, rpc, memoryRefs>>
  /\ UNCHANGED <<vars, uvars>>

\* fd_write(1, ..) hands the bytes of the buffer to the writer and awaits
inv_fd_write(r) ==
  /\ Calls(r, Stage.fd_write)
  /\ streams' = [streams EXCEPT ![r].pending = <<memories[memoryOf(r)].buf>>]
  /\ inv' = [inv EXCEPT ![r].n = Stage.fd_write, ![r].pc = "fd_write"]
  /\ UNCHANGED <<pandocRef, compiles, rpc, memoryRefs, memories>>
  /\ UNCHANGED <<vars, uvars>>

\* the write settled: the bytes are counted
inv_fd_write_settle(r) ==
  /\ HostFree(r)
  /\ inv[r].pc = "fd_write"
  /\ streams[r].pending = <<>>
  /\ inv' = Resumed(r, "fd_write",
                    Len(streams[r].received[Len(streams[r].received)]))
  /\ UNCHANGED <<pandocRef, compiles, rpc, memoryRefs, memories, streams>>
  /\ UNCHANGED <<vars, uvars>>

\* fd_close(0) cancels the input stream and awaits the cancellation
inv_fd_close(r) ==
  /\ Calls(r, Stage.fd_close)
  /\ streams' = [streams EXCEPT
                   ![r].src = IF @ = "done" THEN @ ELSE "cancelling"]
  /\ inv' = [inv EXCEPT ![r].n = Stage.fd_close, ![r].pc = "fd_close"]
  /\ UNCHANGED <<pandocRef, compiles, rpc, memoryRefs, memories>>
  /\ UNCHANGED <<vars, uvars>>

\* the cancellation settled
inv_fd_close_settle(r) ==
  /\ HostFree(r)
  /\ inv[r].pc = "fd_close"
  /\ streams[r].src = "done"
  /\ inv' = Resumed(r, "fd_close", ERRNO_SUCCESS)
  /\ UNCHANGED <<pandocRef, compiles, rpc, memoryRefs, memories, streams>>
  /\ UNCHANGED <<vars, uvars>>

\* proc_exit: start resolves, fn resolves, render makes its blob
inv_proc_exit(r) ==
  /\ Calls(r, Stage.proc_exit)
  /\ inv' = [inv EXCEPT ![r].n = Stage.proc_exit, ![r].pc = "settled",
                        ![r].last = "proc_exit"]
  /\ rpc' = [rpc EXCEPT ![r] = "resolved"]
  /\ UNCHANGED <<pandocRef, compiles, memoryRefs, memories, streams>>
  /\ UNCHANGED <<vars, uvars>>

\* the body of the fetched document arrives
source_deliver(r) ==
  /\ HostFree(r)
  /\ inv[r].pc # "none"
  /\ streams[r].src = "slow"
  /\ streams' = [streams EXCEPT ![r].src = "ready"]
  /\ UNCHANGED <<pandocRef, compiles, rpc, inv, memoryRefs, memories>>
  /\ UNCHANGED <<vars, uvars>>

\* the source of the fetched document has dropped the cancelled body
source_cancelled(r) ==
  /\ HostFree(r)
  /\ streams[r].src = "cancelling"
  /\ streams' = [streams EXCEPT ![r].src = "done"]
  /\ UNCHANGED <<pandocRef, compiles, rpc, inv, memoryRefs, memories>>
  /\ UNCHANGED <<vars, uvars>>

\* the stdout sink of render r takes the chunk: chunks.push(..)
sink_take(r) ==
  /\ HostFree(r)
  /\ streams[r].pending # <<>>
  /\ streams' = [streams EXCEPT
                   ![r].received = Append(@, Head(streams[r].pending)),
                   ![r].pending = <<>>]
  /\ UNCHANGED <<pandocRef, compiles, rpc, inv, memoryRefs, memories>>
  /\ UNCHANGED <<vars, uvars>>

\* no invocation of this file's own: one wasi value that is never started
Parked ==
  /\ InitWith({DefaultArgs}, {UsedMemory})
  /\ opts = [args |-> DefaultArgs, stdin |-> FALSE, stdout |-> FALSE,
             stderr |-> FALSE]
  /\ instance = [memory |-> TRUE, _start |-> TRUE]

InitHost == Parked /\ NoLink

NextHost ==
  \/ \E r \in Renders : render(r)
  \/ \E r \in Renders, ok \in BOOLEAN : fetchContent_settle(r, ok)
  \/ \E ok \in BOOLEAN : compileStreaming_settle(ok)
  \/ \E r \in Renders : newPandoc_fn(r)
  \/ \E r \in Renders : instantiate_settle(r)
  \/ \E r \in Renders : inv_args_get(r)
  \/ \E r \in Renders : inv_fd_read(r)
  \/ \E r \in Renders : inv_fd_read_settle(r)
  \/ \E r \in Renders : inv_fd_write(r)
  \/ \E r \in Renders : inv_fd_write_settle(r)
  \/ \E r \in Renders : inv_fd_close(r)
  \/ \E r \in Renders : inv_fd_close_settle(r)
  \/ \E r \in Renders : inv_proc_exit(r)
  \/ \E r \in Renders : source_deliver(r)
  \/ \E r \in Renders : source_cancelled(r)
  \/ \E r \in Renders : sink_take(r)

SpecHost == InitHost /\ [][NextHost]_<<vars, hvars, uvars>>

(* --------------------------- the component Page ------------------------- *)
Hashes == {"a", "b"}

\* React commits Page with hash h: on the mount, and whenever useHash gives
\* another hash. The cleanup of the run before aborts its signal; the new
\* run goes as far as its first await.
useEffect(h) ==
  /\ cur < MaxEffects
  /\ cur = 0 \/ h # hash
  /\ hash' = h
  /\ cur' = cur + 1
  /\ effects' =
       [e \in Effects |->
          IF e = cur THEN [effects[e] EXCEPT !.aborted = TRUE]
          ELSE IF e = cur + 1
          THEN [hash |-> h, pc |-> IF h = "null" THEN "done" ELSE "awaiting",
                aborted |-> FALSE]
          ELSE effects[e]]
  /\ err' = "null"
  /\ errBy' = 0
  /\ contentUrl' = IF h = "null" THEN 0 ELSE contentUrl
  /\ UNCHANGED <<query, encoded, decoded>>
  /\ UNCHANGED <<vars, hvars>>

\* `await decodeQuery(hash)` and `await render(..)` of run e have both
\* fulfilled: the run returns if its signal is aborted and sets the content
\* URL otherwise
render_fulfilled(e) ==
  /\ effects[e].pc = "awaiting"
  /\ effects' = [effects EXCEPT ![e].pc = "done"]
  /\ contentUrl' = IF effects[e].aborted THEN contentUrl ELSE e
  /\ UNCHANGED <<hash, cur, err, errBy, query, encoded, decoded>>
  /\ UNCHANGED <<vars, hvars>>

\* one of the two has rejected: the catch of run e
render_rejected(e) ==
  /\ effects[e].pc = "awaiting"
  /\ effects' = [effects EXCEPT ![e].pc = "done"]
  /\ err' = "Error occurred."
  /\ errBy' = e
  /\ UNCHANGED <<hash, cur, contentUrl, query, encoded, decoded>>
  /\ UNCHANGED <<vars, hvars>>

InitPage == Parked /\ NoLink

NextPage ==
  \/ \E h \in Hashes \cup {"null"} : useEffect(h)
  \/ \E e \in Effects : render_fulfilled(e)
  \/ \E e \in Effects : render_rejected(e)

SpecPage == InitPage /\ [][NextPage]_<<vars, hvars, uvars>>

(* ------------------------ the link codec: encode ------------------------ *)
\* Strings are sequences of UTF-16 code units, byte arrays sequences of
\* bytes.
\* \uXXXX with lowercase digits
UnicodeEscape(c) ==
  LET HexDigit(d) == IF d < 10 THEN 48 + d ELSE 87 + d
  IN <<92, 117, HexDigit(c \div 4096), HexDigit((c \div 256) % 16),
       HexDigit((c \div 16) % 16), HexDigit(c % 16)>>

\* a JSON.stringify that writes a lone surrogate as it is
QuoteUnit_illformed(c) ==
  IF c = 8 THEN <<92, 98>>
  ELSE IF c = 9 THEN <<92, 116>>
  ELSE IF c = 10 THEN <<92, 110>>
  ELSE IF c = 12 THEN <<92, 102>>
  ELSE IF c = 13 THEN <<92, 114>>
  ELSE IF c = 34 THEN <<92, 34>>
  ELSE IF c = 92 THEN <<92, 92>>
  ELSE IF c < 32 THEN UnicodeEscape(c)
  ELSE <<c>>

\* JSON.stringify, QuoteJSONString: one code unit that is not part of a
\* surrogate pair
QuoteUnit(c) ==
  IF c = 8 THEN <<92, 98>>
  ELSE IF c = 9 THEN <<92, 116>>
  ELSE IF c = 10 THEN <<92, 110>>
  ELSE IF c = 12 THEN <<92, 102>>
  ELSE IF c = 13 THEN <<92, 114>>
  ELSE IF c = 34 THEN <<92, 34>>
  ELSE IF c = 92 THEN <<92, 92>>
  ELSE IF c < 32 \/ IsHigh(c) \/ IsLow(c) THEN UnicodeEscape(c)
  ELSE <<c>>

RECURSIVE QuoteUnits(_)
QuoteUnits(str) ==
  IF str = <<>> THEN <<>>
  ELSE IF Len(str) >= 2 /\ IsHigh(str[1]) /\ IsLow(str[2])
  THEN <<str[1], str[2]>> \o QuoteUnits(SubSeq(str, 3, Len(str)))
  ELSE QuoteUnit(Head(str)) \o QuoteUnits(Tail(str))

QuoteJSONString(str) == <<34>> \o QuoteUnits(str) \o <<34>>

RECURSIVE StringifyList(_)
\* the elements of an array of strings, with commas between them
StringifyList(strs) ==
  IF strs = <<>> THEN <<>>
  ELSE QuoteJSONString(Head(strs)) \o
       (IF Len(strs) > 1 THEN <<44>> ELSE <<>>) \o StringifyList(Tail(strs))

\* JSON.stringify(query): {"url":"..","args":["..",".."]}
stringify(qy) ==
  <<123, 34, 117, 114, 108, 34, 58>> \o QuoteJSONString(qy.url) \o
  <<44, 34, 97, 114, 103, 115, 34, 58, 91>> \o StringifyList(qy.args) \o
  <<93, 125>>

RECURSIVE SumMod(_, _, _, _)
\* the sum of f[lo..hi] modulo m, by halves
SumMod(f, lo, hi, m) ==
  IF lo > hi THEN 0
  ELSE IF lo = hi THEN f[lo] % m
  ELSE LET mid == (lo + hi) \div 2
       IN (SumMod(f, lo, mid, m) + SumMod(f, mid + 1, hi, m)) % m

\* Adler-32 (RFC 1950): s1 is 1 plus the bytes, s2 the sum of the values s1
\* takes, both modulo 65521; byte k is counted n - k + 1 times in s2. The
\* checksum is s2 * 65536 + s1, most significant byte first.
Adler32(bytes) ==
  LET n  == Len(bytes)
      s1 == (1 + SumMod(bytes, 1, n, 65521)) % 65521
      s2 == (n + SumMod([k \in 1..n |-> (n - k + 1) * bytes[k]], 1, n,
                        65521)) % 65521
  IN <<s2 \div 256, s2 % 256, s1 \div 256, s1 % 256>>

\* CompressionStream("deflate"): a zlib stream (RFC 1950) around a deflate
\* stream (RFC 1951). The stream written here is the one of a compressor
\* that stores: header 78 01, one final stored block (01, LEN, NLEN, the
\* bytes) and the Adler-32 of the bytes.
deflate(bytes) ==
  LET n == Len(bytes)
  IN <<120, 1, 1, n % 256, n \div 256, 255 - (n % 256), 255 - (n \div 256)>>
       \o bytes \o Adler32(bytes)

\* the base64url alphabet: A-Z a-z 0-9 - _
Base64UrlChar(v) ==
  IF v < 26 THEN 65 + v
  ELSE IF v < 52 THEN 97 + (v - 26)
  ELSE IF v < 62 THEN 48 + (v - 52)
  ELSE IF v = 62 THEN 45
  ELSE 95

\* Uint8Array.toBase64({ alphabet: "base64url", omitPadding: true }): three
\* bytes give four characters, a last group of one or two bytes gives two
\* or three
toBase64(bytes) ==
  LET n     == Len(bytes)
      at(i) == IF i <= n THEN bytes[i] ELSE 0
      last  == IF n % 3 = 0 THEN 0 ELSE (n % 3) + 1
  IN [j \in 1..(4 * (n \div 3) + last) |->
        LET g  == (j - 1) \div 4
            b1 == at(3 * g + 1)
            b2 == at(3 * g + 2)
            b3 == at(3 * g + 3)
        IN Base64UrlChar(
             IF (j - 1) % 4 = 0 THEN b1 \div 4
             ELSE IF (j - 1) % 4 = 1 THEN (b1 % 4) * 16 + (b2 \div 16)
             ELSE IF (j - 1) % 4 = 2 THEN (b2 % 16) * 4 + (b3 \div 64)
             ELSE b3 % 64)]

RECURSIVE blobBytes(_)
\* new Blob([str]): the string in UTF-8, as TextEncoder encodes it. A long
\* string is encoded in two parts, cut before a code unit that is no low
\* surrogate, so that no pair is cut.
blobBytes(str) ==
  LET cuts == {k \in 2..Len(str) : ~IsLow(str[k])}
      mid  == (Len(str) \div 2) + 1
  IN IF Len(str) <= 8 \/ cuts = {} THEN encode(str)
     ELSE LET m == CHOOSE k \in cuts :
                     \A c \in cuts :
                       \/ (IF k > mid THEN k - mid ELSE mid - k)
                            < (IF c > mid THEN c - mid ELSE mid - c)
                       \/ /\ (IF k > mid THEN k - mid ELSE mid - k)
                               = (IF c > mid THEN c - mid ELSE mid - c)
                          /\ k <= c
          IN blobBytes(SubSeq(str, 1, m - 1))
               \o blobBytes(SubSeq(str, m, Len(str)))

\* encodeV1(query)
encodeV1(qy) == toBase64(deflate(blobBytes(stringify(qy))))

\* `v1:${await encodeV1(query)}`
encodeQuery(qy) == <<118, 49, 58>> \o encodeV1(qy)

(* ------------------------ the link codec: decode ------------------------ *)
Failed == [ok |-> FALSE, val |-> <<>>, next |-> 0]

\* String.prototype.split(sep, limit): the string is cut at every
\* separator, the first limit pieces are kept
split(str, sep, limit) ==
  LET seps   == {k \in 1..Len(str) : str[k] = sep}
      pos(j) == IF j = 0 THEN 0
                ELSE IF j > Cardinality(seps) THEN Len(str) + 1
                ELSE CHOOSE k \in seps :
                       Cardinality({m \in seps : m < k}) = j - 1
  IN [j \in 1..Min(limit, Cardinality(seps) + 1) |->
        SubSeq(str, pos(j - 1) + 1, pos(j) - 1)]

Base64UrlValue(c) ==
  IF c >= 65 /\ c <= 90 THEN c - 65
  ELSE IF c >= 97 /\ c <= 122 THEN c - 97 + 26
  ELSE IF c >= 48 /\ c <= 57 THEN c - 48 + 52
  ELSE IF c = 45 THEN 62
  ELSE IF c = 95 THEN 63
  ELSE -1

\* the bytes of a sequence of base64url values: four values give three
\* bytes; a last chunk of two or three values gives one or two bytes and
\* its spare bits are dropped (lastChunkHandling "loose")
DecodeChunks(vals) ==
  LET n     == Len(vals)
      at(i) == IF i <= n THEN vals[i] ELSE 0
      last  == IF n % 4 < 2 THEN 0 ELSE (n % 4) - 1
  IN [j \in 1..(3 * (n \div 4) + last) |->
        LET g  == (j - 1) \div 3
            v1 == at(4 * g + 1)
            v2 == at(4 * g + 2)
            v3 == at(4 * g + 3)
            v4 == at(4 * g + 4)
        IN IF (j - 1) % 3 = 0 THEN v1 * 4 + (v2 \div 16)
           ELSE IF (j - 1) % 3 = 1 THEN (v2 % 16) * 16 + (v3 \div 4)
           ELSE (v3 % 4) * 64 + v4]

\* Uint8Array.fromBase64(text, { alphabet: "base64url" }): whitespace is
\* skipped, padding may close the last chunk, anything else outside the
\* alphabet and a last chunk of one character are a SyntaxError
fromBase64(text) ==
  LET chars == SelectSeq(text, LAMBDA c : c \notin {9, 10, 12, 13, 32})
      pads  == IF Len(chars) >= 2 /\ chars[Len(chars)] = 61
                  /\ chars[Len(chars) - 1] = 61 THEN 2
               ELSE IF Len(chars) >= 1 /\ chars[Len(chars)] = 61 THEN 1
               ELSE 0
      body  == SubSeq(chars, 1, Len(chars) - pads)
      vals  == [k \in 1..Len(body) |-> Base64UrlValue(body[k])]
  IN IF \/ \E k \in 1..Len(vals) : vals[k] = -1
        \/ Len(vals) % 4 = 1
        \/ pads # 0 /\ (Len(vals) + pads) % 4 # 0
     THEN Failed
     ELSE [ok |-> TRUE, val |-> DecodeChunks(vals), next |-> 0]

RECURSIVE InflateBlocks(_, _, _)
\* the blocks of a deflate stream from position i on, out being the bytes
\* so far. Stored blocks are read; a block with Huffman codes, which the
\* compressor above never writes, is not decoded and ends the reading.
InflateBlocks(bytes, i, out) ==
  IF i + 4 > Len(bytes) THEN Failed
  ELSE LET final == bytes[i] % 2
           btype == (bytes[i] \div 2) % 4
           len   == bytes[i + 1] + 256 * bytes[i + 2]
           nlen  == bytes[i + 3] + 256 * bytes[i + 4]
       IN IF btype # 0 \/ len + nlen # 65535 \/ i + 4 + len > Len(bytes)
          THEN Failed
          ELSE LET got == out \o SubSeq(bytes, i + 5, i + 4 + len)
               IN IF final = 1
                  THEN [ok |-> TRUE, val |-> got, next |-> i + 5 + len]
                  ELSE InflateBlocks(bytes, i + 5 + len, got)

\* DecompressionStream("deflate"): the zlib header is checked (method 8,
\* window, check bits, no preset dictionary), the blocks are read, and the
\* four bytes after them are the Adler-32 of the output; bytes after those
\* are an error
inflate(bytes) ==
  IF Len(bytes) < 2 THEN Failed
  ELSE IF \/ bytes[1] % 16 # 8
          \/ bytes[1] \div 16 > 7
          \/ (bytes[1] * 256 + bytes[2]) % 31 # 0
          \/ (bytes[2] \div 32) % 2 # 0
  THEN Failed
  ELSE LET blocks == InflateBlocks(bytes, 3, <<>>)
       IN IF ~blocks.ok THEN Failed
          ELSE IF Len(bytes) # blocks.next + 3 THEN Failed
          ELSE IF SubSeq(bytes, blocks.next, blocks.next + 3)
                    # Adler32(blocks.val)
          THEN Failed
          ELSE blocks

\* how many bytes one character takes, by its first byte (0: not a first
\* byte)
Utf8Needed(b) ==
  IF b < 128 THEN 1
  ELSE IF b >= 194 /\ b <= 223 THEN 2
  ELSE IF b >= 224 /\ b <= 239 THEN 3
  ELSE IF b >= 240 /\ b <= 244 THEN 4
  ELSE 0

RECURSIVE Utf8Valid(_, _, _)
\* how many of the bytes k..need of the character at the head are in
\* range: 80..BF, but the byte after E0, F0, ED, F4 is in A0..BF, 90..BF,
\* 80..9F, 80..8F
Utf8Valid(bytes, k, need) ==
  IF k > need \/ k > Len(bytes) THEN 0
  ELSE IF /\ bytes[k] >= (IF k = 2 /\ bytes[1] = 224 THEN 160
                           ELSE IF k = 2 /\ bytes[1] = 240 THEN 144
                           ELSE 128)
          /\ bytes[k] <= (IF k = 2 /\ bytes[1] = 237 THEN 159
                           ELSE IF k = 2 /\ bytes[1] = 244 THEN 143
                           ELSE 191)
  THEN 1 + Utf8Valid(bytes, k + 1, need)
  ELSE 0

RECURSIVE utf8decode(_)
\* the UTF-8 decoder of the platform: an ill-formed sequence gives U+FFFD
\* and the decoding resumes after its longest well-formed start
utf8decode(bytes) ==
  IF bytes = <<>> THEN <<>>
  ELSE LET need == Utf8Needed(bytes[1])
           have == Utf8Valid(bytes, 2, need)
           rest == SubSeq(bytes, 2 + have, Len(bytes))
       IN IF need = 0 THEN <<65533>> \o utf8decode(Tail(bytes))
          ELSE IF have < need - 1 THEN <<65533>> \o utf8decode(rest)
          ELSE IF need = 1 THEN <<bytes[1]>> \o utf8decode(rest)
          ELSE IF need = 2
          THEN <<(bytes[1] - 192) * 64 + (bytes[2] - 128)>>
               \o utf8decode(rest)
          ELSE IF need = 3
          THEN <<(bytes[1] - 224) * 4096 + (bytes[2] - 128) * 64
                 + (bytes[3] - 128)>> \o utf8decode(rest)
          ELSE LET cp == (bytes[1] - 240) * 262144 + (bytes[2] - 128) * 4096
                         + (bytes[3] - 128) * 64 + (bytes[4] - 128) - 65536
               IN <<55296 + (cp \div 1024), 56320 + (cp % 1024)>>
                  \o utf8decode(rest)

RECURSIVE utf8text(_)
\* a long array is decoded in two parts, cut before a byte that is no
\* continuation byte: the decoder starts a character there
utf8text(bytes) ==
  LET cuts == {k \in 2..Len(bytes) : bytes[k] < 128 \/ bytes[k] > 191}
      mid  == (Len(bytes) \div 2) + 1
  IN IF Len(bytes) <= 8 \/ cuts = {} THEN utf8decode(bytes)
     ELSE LET m == CHOOSE k \in cuts :
                     \A c \in cuts :
                       \/ (IF k > mid THEN k - mid ELSE mid - k)
                            < (IF c > mid THEN c - mid ELSE mid - c)
                       \/ /\ (IF k > mid THEN k - mid ELSE mid - k)
                               = (IF c > mid THEN c - mid ELSE mid - c)
                          /\ k <= c
          IN utf8text(SubSeq(bytes, 1, m - 1))
               \o utf8text(SubSeq(bytes, m, Len(bytes)))

\* Blob.text(): UTF-8 decode, a byte order mark at the start is dropped
text(bytes) ==
  IF Len(bytes) >= 3 /\ SubSeq(bytes, 1, 3) = <<239, 187, 191>>
  THEN utf8text(SubSeq(bytes, 4, Len(bytes)))
  ELSE utf8text(bytes)

HexValue(c) ==
  IF c >= 48 /\ c <= 57 THEN c - 48
  ELSE IF c >= 97 /\ c <= 102 THEN c - 87
  ELSE IF c >= 65 /\ c <= 70 THEN c - 55
  ELSE -1

\* the character an escape letter stands for (-1: none)
Unescape(c) ==
  IF c \in {34, 47, 92} THEN c
  ELSE IF c = 98 THEN 8
  ELSE IF c = 102 THEN 12
  ELSE IF c = 110 THEN 10
  ELSE IF c = 114 THEN 13
  ELSE IF c = 116 THEN 9
  ELSE -1

RECURSIVE SkipWhitespace(_, _)
SkipWhitespace(str, i) ==
  IF i <= Len(str) /\ str[i] \in {9, 10, 13, 32}
  THEN SkipWhitespace(str, i + 1)
  ELSE i

RECURSIVE ParseChars(_, _, _)
\* JSON.parse: the characters of a string from position i to its closing
\* quote, acc being the ones read
ParseChars(str, i, acc) ==
  IF i > Len(str) \/ str[i] < 32 THEN Failed
  ELSE IF str[i] = 34 THEN [ok |-> TRUE, val |-> acc, next |-> i + 1]
  ELSE IF str[i] # 92 THEN ParseChars(str, i + 1, Append(acc, str[i]))
  ELSE IF i + 1 > Len(str) THEN Failed
  ELSE IF str[i + 1] = 117
  THEN IF i + 5 > Len(str)
          \/ \E k \in 2..5 : HexValue(str[i + k]) = -1
       THEN Failed
       ELSE ParseChars(str, i + 6,
              Append(acc, HexValue(str[i + 2]) * 4096
                          + HexValue(str[i + 3]) * 256
                          + HexValue(str[i + 4]) * 16
                          + HexValue(str[i + 5])))
  ELSE IF Unescape(str[i + 1]) = -1 THEN Failed
  ELSE ParseChars(str, i + 2, Append(acc, Unescape(str[i + 1])))

RECURSIVE ParseValue(_, _)
RECURSIVE ParseElements(_, _, _)
RECURSIVE ParseMembers(_, _, _)

\* JSON.parse: the value at position i, as [t |-> its kind, v |-> its
\* content]: the characters of a string, the values of an array, the
\* <<key, value>> members of an object. Numbers and the literals true,
\* false and null are not read by this model.
ParseValue(str, i0) ==
  LET i == SkipWhitespace(str, i0)
  IN IF i > Len(str) THEN Failed
     ELSE IF str[i] = 34
     THEN LET r == ParseChars(str, i + 1, <<>>)
          IN IF r.ok THEN [r EXCEPT !.val = [t |-> "string", v |-> r.val]]
             ELSE Failed
     ELSE IF str[i] = 91
     THEN LET j == SkipWhitespace(str, i + 1)
              r == IF j <= Len(str) /\ str[j] = 93
                   THEN [ok |-> TRUE, val |-> <<>>, next |-> j + 1]
                   ELSE ParseElements(str, j, <<>>)
          IN IF r.ok THEN [r EXCEPT !.val = [t |-> "array", v |-> r.val]]
             ELSE Failed
     ELSE IF str[i] = 123
     THEN LET j == SkipWhitespace(str, i + 1)
              r == IF j <= Len(str) /\ str[j] = 125
                   THEN [ok |-> TRUE, val |-> <<>>, next |-> j + 1]
                   ELSE ParseMembers(str, j, <<>>)
          IN IF r.ok THEN [r EXCEPT !.val = [t |-> "object", v |-> r.val]]
             ELSE Failed
     ELSE Failed

\* the elements of an array up to its closing bracket
ParseElements(str, i, acc) ==
  LET r == ParseValue(str, i)
  IN IF ~r.ok THEN Failed
     ELSE LET j == SkipWhitespace(str, r.next)
          IN IF j > Len(str) THEN Failed
             ELSE IF str[j] = 93
             THEN [ok |-> TRUE, val |-> Append(acc, r.val), next |-> j + 1]
             ELSE IF str[j] = 44
             THEN ParseElements(str, j + 1, Append(acc, r.val))
             ELSE Failed

\* the members of an object up to its closing brace
ParseMembers(str, i0, acc) ==
  LET i == SkipWhitespace(str, i0)
  IN IF i > Len(str) \/ str[i] # 34 THEN Failed
     ELSE LET key == ParseChars(str, i + 1, <<>>)
              c   == IF key.ok THEN SkipWhitespace(str, key.next) ELSE 0
          IN IF ~key.ok \/ c > Len(str) THEN Failed
             ELSE IF str[c] # 58 THEN Failed
             ELSE LET r == ParseValue(str, c + 1)
                      j == IF r.ok THEN SkipWhitespace(str, r.next) ELSE 0
                      m == Append(acc, <<key.val, r.val>>)
                  IN IF ~r.ok \/ j > Len(str) THEN Failed
                     ELSE IF str[j] = 125
                     THEN [ok |-> TRUE, val |-> m, next |-> j + 1]
                     ELSE IF str[j] = 44 THEN ParseMembers(str, j + 1, m)
                     ELSE Failed

\* JSON.parse(json): one value and nothing but whitespace after it
parse(str) ==
  LET r == ParseValue(str, 1)
  IN IF r.ok /\ SkipWhitespace(str, r.next) = Len(str) + 1 THEN r
     ELSE Failed

\* zQuery.parse(value): an object whose url is a string and whose args is
\* an array of strings; other properties are dropped. Of the members of one
\* name the last is the property.
zQuery(value) ==
  IF value.t # "object" THEN Failed
  ELSE LET urls  == SelectSeq(value.v, LAMBDA m : m[1] = <<117, 114, 108>>)
           argss == SelectSeq(value.v,
                              LAMBDA m : m[1] = <<97, 114, 103, 115>>)
       IN IF urls = <<>> \/ argss = <<>> THEN Failed
          ELSE LET url  == urls[Len(urls)][2]
                   args == argss[Len(argss)][2]
               IN IF url.t # "string" \/ args.t # "array" THEN Failed
                  ELSE IF \E k \in 1..Len(args.v) : args.v[k].t # "string"
                  THEN Failed
                  ELSE [ok |-> TRUE, next |-> 0,
                        val |-> [url |-> url.v,
                                 args |-> [k \in 1..Len(args.v) |->
                                             args.v[k].v]]]

\* decodeV1(text): every step that fails throws
decodeV1(b64) ==
  LET bytes == fromBase64(b64)
      data  == IF bytes.ok THEN inflate(bytes.val) ELSE Failed
      json  == IF data.ok THEN parse(text(data.val)) ELSE Failed
  IN IF json.ok THEN zQuery(json.val) ELSE Failed

\* decode(text): const [v, data] = text.split(":", 2), then the version
decodeQuery(txt) ==
  LET parts == split(txt, 58, 2)
  IN IF Len(parts) < 2 THEN [kind |-> "threw"]
     ELSE IF parts[1] # <<118, 49>> THEN [kind |-> "threw"]
     ELSE LET r == decodeV1(parts[2])
          IN IF r.ok THEN [kind |-> "ok", query |-> r.val]
             ELSE [kind |-> "threw"]

(* ------------------------ the link codec: calls ------------------------- *)
\* strings of a query: "h:/", a quote and a backslash, a line feed and a
\* control character, two characters outside ASCII, a surrogate pair, two
\* surrogates that are no pair, and the empty string
LinkStrings ==
  { <<104, 58, 47>>, <<34, 92>>, <<10, 1>>, <<233, 8364>>,
    <<55357, 56832>>, <<56832, 55357>>, <<>> }

Queries ==
  [url : { <<104, 58, 47>>, <<233, 8364>>, <<56832, 55357>> },
   args : UNION {[1..n -> LinkStrings] : n \in 0..MaxArgs}]

\* const encoded = await encode(q)
encode_settle ==
  /\ encoded = Nothing
  /\ encoded' = [kind |-> "ok", text |-> encodeQuery(query)]
  /\ UNCHANGED <<vars, hvars, hash, cur, effects, err, errBy, contentUrl,
                 query, decoded>>

\* const q2 = await decode(encoded)
decode_settle ==
  /\ encoded # Nothing
  /\ decoded = Nothing
  /\ decoded' = decodeQuery(encoded.text)
  /\ UNCHANGED <<vars, hvars, hash, cur, effects, err, errBy, contentUrl,
                 query, encoded>>

InitCodec ==
  /\ Parked
  /\ query \in Queries
  /\ encoded = Nothing
  /\ decoded = Nothing

NextCodec == encode_settle \/ decode_settle

SpecCodec == InitCodec /\ [][NextCodec]_<<vars, hvars, uvars>>

(* ======================= properties of the runtime ====================== *)
RECURSIVE SumLens(_)
\* the sum of the lengths of a sequence of iovecs <<off, len>>
SumLens(iovs) ==
  IF iovs = <<>> THEN 0 ELSE iovs[1][2] + SumLens(Tail(iovs))

\* the addresses of the iovec <<off, len>>
Region(iov) == iov[1]..(iov[1] + iov[2] - 1)

\* the iovecs a call names, as they stood in memory m
IovecsAt(m, iovp, iovlen) ==
  [j \in 1..iovlen |->
     <<getUint32(m, iovp + (j - 1) * IovecSize),
       getUint32(m, iovp + (j - 1) * IovecSize + U32)>>]

\* the call has come to its end, by a return or by a throw
Over == call.ret # RetPending

\* C1: when the guest calls proc_exit(c), for every c, start resolves with
\* c and the pandoc call resolves; neither rejects.
C1_ExitResolves ==
  call.name = "proc_exit" =>
    /\ pc = "settled"
    /\ outcome = [kind |-> "resolved", code |-> call.code, error |-> ""]
    /\ pandoc(outcome) = "resolved"

C1_Witness ==
  /\ call.name = "proc_exit"
  /\ call.code = MaxExitCode
  /\ call.code # 0
  /\ outcome.kind = "resolved"

\* C2: in fd_read on fd 0, bytes are copied only into the regions of the
\* iovecs processed, and nread never exceeds the sum of their lengths.
C2_ReadStaysInIovecs ==
  call.name = "fd_read" =>
    /\ call.touched \subseteq UNION {Region(call.iovs[j]) : j \in DOMAIN call.iovs}
    /\ call.n <= SumLens(call.iovs)

\* C3: when the stream holds fewer bytes than the iovecs ask for, one
\* fd_read returns success with nread = the bytes the stream still held, and
\* the iovecs not reached are as they were.
C3_ReadExhaustion ==
  ( /\ call.name = "fd_read"
    /\ call.fd = 0
    /\ opts.stdin
    /\ call.ret = ERRNO_SUCCESS
    /\ call.avail < SumLens(IovecsAt(call.mem0, call.iovp, call.iovlen)) )
  =>
    /\ getUint32(mem, call.resp) = call.avail
    /\ \A j \in (Len(call.iovs) + 1)..call.iovlen :
         \A a \in Region(IovecsAt(call.mem0, call.iovp, call.iovlen)[j]) :
           a \in DOMAIN mem => mem[a] = call.mem0[a]

\* C4: an fd_write on a configured sink that returns success has given the
\* sink exactly one chunk per iovec, the bytes of that iovec, in iovec order,
\* and has stored the sum of the iovec lengths at nwritten.
C4_WriteExact ==
  ( /\ call.name = "fd_write"
    /\ call.fd \in {1, 2}
    /\ (IF call.fd = 1 THEN opts.stdout ELSE opts.stderr)
    /\ call.ret = ERRNO_SUCCESS )
  =>
    LET iovs == IovecsAt(call.mem0, call.iovp, call.iovlen)
        got == sinks[call.fd].received
        other == sinks[3 - call.fd].received
    IN /\ SubSeq(got, call.rcv0[call.fd] + 1, Len(got))
            = [j \in 1..call.iovlen |->
                 [b \in 1..iovs[j][2] |-> call.mem0[iovs[j][1] + b - 1]]]
       /\ Len(other) = call.rcv0[3 - call.fd]
       /\ getUint32(mem, call.resp) = SumLens(iovs)

C4_Witness ==
  /\ call.name = "fd_write"
  /\ call.fd = 1
  /\ call.iovlen = 2
  /\ call.ret = ERRNO_SUCCESS
  /\ Len(sinks[1].received) = 2
  /\ sinks[1].received[1] # sinks[1].received[2]

\* C5: within one fd_write the sink holds at most one chunk that it has not
\* accepted, the chunk of iovec i is handed over only when the sink has
\* accepted the chunks of all iovecs before i, and while a chunk waits the
\* guest stays suspended in that fd_write; so control is back in the guest
\* only when every chunk was accepted.
C5_WriteAwaitsSink ==
  \A f \in {1, 2} :
    /\ Len(sinks[f].pending) <= 1
    /\ sinks[f].pending # <<>> =>
         /\ pc = "fd_write"
         /\ call.fd = f
         /\ Len(sinks[f].received) - call.rcv0[f] = call.i
    /\ (pc = "guest" /\ call.name = "fd_write" /\ call.ret = ERRNO_SUCCESS
          /\ call.fd = f /\ (IF f = 1 THEN opts.stdout ELSE opts.stderr)) =>
         Len(sinks[f].received) - call.rcv0[f] = call.iovlen

C5_Witness ==
  /\ pc = "fd_write"
  /\ call.i = 1
  /\ sinks[call.fd].pending # <<>>
  /\ Len(sinks[call.fd].received) = 1

\* C6: fd_write on fd 1 or 2 whose stream is not configured returns success
\* without raising an error, leaves guest memory, both sinks and the input
\* stream as they were, takes no lock, and leaves the invocation able to go
\* on to a successful end.
C6_NoSinkNoOp ==
  ( /\ call.name = "fd_write"
    /\ \/ call.fd = 1 /\ ~opts.stdout
       \/ call.fd = 2 /\ ~opts.stderr )
  =>
    /\ call.ret = ERRNO_SUCCESS
    /\ mem = call.mem0
    /\ \A f \in {1, 2} :
         /\ ~sinks[f].locked
         /\ sinks[f].pending = <<>>
         /\ Len(sinks[f].received) = call.rcv0[f]
    /\ ~stdin.locked
    /\ stdin.state = "readable" => Len(stdin.data) = call.avail
    /\ (pc = "guest" /\ nsys < MaxSyscalls) => ENABLED proc_exit(0)

C6_Witness ==
  /\ call.name = "fd_write"
  /\ call.fd = 2
  /\ ~opts.stderr
  /\ call.iovlen = 2
  /\ call.ret = ERRNO_SUCCESS
  /\ pc = "guest"

\* C7: fd_read, fd_write and fd_close on a descriptor outside {0, 1, 2}, and
\* fd_read without an input stream, return ERRNO_BADF as a value: nothing is
\* thrown, no lock is taken and guest memory is not written; a stubbed
\* syscall throws and the invocation rejects.
C7_BadDescriptor ==
  /\ ( /\ call.name \in {"fd_read", "fd_write", "fd_close"}
       /\ \/ call.fd \notin {0, 1, 2}
          \/ call.name = "fd_read" /\ ~opts.stdin )
     =>
       /\ call.ret = ERRNO_BADF
       /\ mem = call.mem0
       /\ ~stdin.locked
       /\ \A f \in {1, 2} : ~sinks[f].locked
       /\ stdin.state = "readable" => Len(stdin.data) = call.avail
       /\ \A f \in {1, 2} : Len(sinks[f].received) = call.rcv0[f]
       /\ (pc = "settled" => outcome.error = "Unreachable")
  /\ call.name = "todo" =>
       /\ call.ret = RetThrew
       /\ pc = "settled"
       /\ outcome.kind = "rejected"

C7_Witness ==
  /\ call.name = "fd_write"
  /\ call.fd = 3
  /\ call.ret = ERRNO_BADF
  /\ pc = "guest"

\* C8: whenever control is in the guest, and after the invocation settled,
\* the invocation holds no lock on its input stream or on a sink: fd_read
\* and fd_write release their lock on every way out, a throw included, and
\* no syscall fails to take a lock.
C8_NoLockOutsideSyscall ==
  /\ pc \in {"guest", "settled"} =>
       /\ ~stdin.locked
       /\ \A f \in {1, 2} : ~sinks[f].locked
  /\ outcome.error # "TypeError"

C8_Witness ==
  /\ pc = "settled"
  /\ call.name = "fd_read"
  /\ call.i = 1
  /\ call.n > 0
  /\ call.ret = RetThrew
  /\ ~stdin.locked

\* C9: fd_close(0) returns success whatever the state of the input stream;
\* a failure of the cancellation does not abort the invocation.
C9_CloseBestEffort ==
  (call.name = "fd_close" /\ call.fd = 0 /\ Over) =>
    /\ call.ret = ERRNO_SUCCESS
    /\ outcome.error # "StreamError"

\* C10: an fd_read on fd 0 that finds the input stream closed or cancelled
\* (by fd_close(0) or by the host) observes end-of-data: with its result
\* pointer inside the memory it returns success, stores nread = 0, copies
\* no byte and throws nothing.
C10_ReadAfterClose ==
  ( /\ call.name = "fd_read"
    /\ call.fd = 0
    /\ opts.stdin
    /\ call.entryCancelled \/ call.entryState = "closed"
    /\ InBounds(call.resp, U32) )
  =>
    /\ call.n = 0
    /\ call.touched = {}
    /\ call.ret # RetThrew
    /\ Over =>
         /\ call.ret = ERRNO_SUCCESS
         /\ mem = setUint32(call.mem0, call.resp, 0)

C10_Witness ==
  /\ call.name = "fd_read"
  /\ call.entryCancelled
  /\ call.iovlen = 2
  /\ call.ret = ERRNO_SUCCESS
  /\ getUint32(mem, call.resp) = 0
  /\ nsys = 2


\* C19: after environ_sizes_get returned success, the two words the guest
\* passed for the count and the size of the environment both hold 0,
\* whatever they held before the call.
C19_EnvironEmpty ==
  (call.name = "environ_sizes_get" /\ call.ret = ERRNO_SUCCESS) =>
    /\ getUint32(mem, call.iovp) = 0
    /\ getUint32(mem, call.resp) = 0

\* C12: an error other than Exit thrown inside a syscall (a stub, a clock id
\* without a case, a failed source or sink, a pointer outside the memory)
\* rejects start and the pandoc call with that same error; the syscall
\* returns no status to the guest, no exit code comes out of it, and after
\* it no syscall runs again and the outcome stays.
C12_Fatal ==
  (call.ret = RetThrew /\ call.name # "proc_exit") =>
    /\ pc = "settled"
    /\ call.err # ""
    /\ outcome = [kind |-> "rejected", code |-> 0 - 1, error |-> call.err]
    /\ pandoc(outcome) = "rejected"
    /\ ~ENABLED Enter
    /\ ~ENABLED start

C12_Witness ==
  /\ call.name = "fd_write"
  /\ call.ret = RetThrew
  /\ call.err = "StreamError"
  /\ call.i = 1
  /\ outcome.kind = "rejected"

\* C13: when the entry point returns without proc_exit having been called
\* (start ran it and no syscall threw), start rejects with "Unreachable";
\* start resolves only when proc_exit has thrown its Exit.
C13_Unreachable ==
  /\ ( /\ pc = "settled"
       /\ instance.memory
       /\ instance._start
       /\ call.ret # RetThrew ) =>
       /\ outcome = [kind |-> "rejected", code |-> 0 - 1,
                     error |-> "Unreachable"]
       /\ pandoc(outcome) = "rejected"
  /\ outcome.kind = "resolved" =>
       (call.name = "proc_exit" /\ call.ret = RetThrew)

C13_Witness ==
  /\ pc = "settled"
  /\ outcome.error = "Unreachable"
  /\ call.name = "fd_write"
  /\ call.ret = ERRNO_SUCCESS
  /\ call.n > 0

\* C14: with an instance that exports no memory, or no callable _start,
\* the invocation never runs the entry point and no syscall executes: it
\* is still to be started or has rejected, with no syscall entered and no
\* chunk handed to a sink.
C14_FailFast ==
  (~instance.memory \/ ~instance._start) =>
    /\ pc \in {"created", "settled"}
    /\ nsys = 0
    /\ call = NoCall
    /\ sinks = [f \in {1, 2} |-> Writable]
    /\ pc = "settled" =>
         /\ outcome = [kind |-> "rejected", code |-> 0 - 1, error |-> "Error"]
         /\ pandoc(outcome) = "rejected"

C14_Witness ==
  /\ instance.memory
  /\ ~instance._start
  /\ pc = "settled"
  /\ outcome.kind = "rejected"

\* C20: only proc_exit makes an Exit, and it ends the invocation once: a
\* resolved outcome carries the code of the proc_exit call that is the last
\* call; once proc_exit has been called no other syscall is entered, the
\* input stream, the sinks and the memory stay as they are, and the outcome,
\* settled with that code, never changes again.
C20_ExitOnce ==
  /\ [](outcome.kind = "resolved" =>
          /\ call.name = "proc_exit"
          /\ outcome.code = call.code)
  /\ [](call.name = "proc_exit" =>
          /\ pc = "settled"
          /\ outcome.kind = "resolved")
  /\ [][call.name = "proc_exit" =>
          /\ call' = call
          /\ nsys' = nsys
          /\ stdin' = stdin
          /\ sinks' = sinks
          /\ mem' = mem]_vars
  /\ [][outcome.kind # "pending" => outcome' = outcome]_vars

C20_Witness ==
  /\ call.name = "proc_exit"
  /\ call.code = 1
  /\ outcome.kind = "resolved"
  /\ outcome.code = 1
  /\ nsys = MaxSyscalls
  /\ sinks[1].received # <<>>

RECURSIVE ArgOffset(_, _)
\* the bytes the arguments before the i-th take, each with its null byte
ArgOffset(args, i) ==
  IF i = 1 THEN 0
  ELSE ArgOffset(args, i - 1) + Len(encode(args[i - 1])) + 1

\* C11: for every argument list, after args_get(argvp, argbp) returned
\* success the buffer holds, argument after argument, the UTF-8 bytes of
\* the argument and one null byte; the vector holds for each argument the
\* 32-bit pointer argbp plus the bytes of the arguments before it; nothing
\* else in the memory changed; and args_sizes_get stores for the same list
\* that number of pointers and that number of bytes.
C11_ArgsRoundTrip ==
  LET args == opts.args
      n == Len(args)
      size == ArgOffset(args, n + 1)
  IN /\ (call.name = "args_get" /\ call.ret = ERRNO_SUCCESS) =>
          LET argvp == call.iovp
              argbp == call.resp
          IN /\ \A i \in 1..n :
                  /\ getUint32(mem, argvp + U32 * (i - 1)) =
                       argbp + ArgOffset(args, i)
                  /\ subarray(mem, argbp + ArgOffset(args, i),
                              Len(encode(args[i])) + 1) =
                       encode(args[i]) \o <<0>>
             /\ \A a \in DOMAIN mem :
                  (a \notin argvp..(argvp + U32 * n - 1) /\
                   a \notin argbp..(argbp + size - 1)) =>
                    mem[a] = call.mem0[a]
     /\ (call.name = "args_sizes_get" /\ call.ret = ERRNO_SUCCESS) =>
          /\ getUint32(mem, call.iovp) = n
          /\ getUint32(mem, call.resp) = size

C11_Witness ==
  /\ call.name = "args_get"
  /\ call.ret = ERRNO_SUCCESS
  /\ Len(opts.args) = MaxArgs
  /\ opts.args[1] = <<55357, 56832>>
  /\ opts.args[MaxArgs] = <<8364, 97>>
  /\ mem # call.mem0

\* C15: the memory accessor is unbound until start binds it; it is bound
\* once, by start, before the entry point runs, and stays bound; a syscall
\* that finds it unbound throws, rejects the invocation and leaves the
\* memory as it was; every syscall of the running guest finds it bound.
C15_MemoryBinding ==
  /\ [](pc = "created" => memoryRef = "undefined")
  /\ [](Running => memoryRef = "bound")
  /\ []((call # NoCall /\ call.ref0 = "undefined") =>
          /\ call.ret = RetThrew
          /\ mem = call.mem0
          /\ nsys = 0
          /\ pc = "settled"
          /\ outcome.kind = "rejected"
          /\ (call.name = "clock_time_get" /\ call.code \in OtherClockIds)
               \/ call.err = "Error")
  /\ [](nsys > 0 => call.ref0 = "bound")
  /\ [][memoryRef' # memoryRef =>
          /\ memoryRef = "undefined"
          /\ memoryRef' = "bound"
          /\ pc = "created"
          /\ nsys = 0]_vars

C15_Witness ==
  /\ call.name = "args_get"
  /\ call.ref0 = "undefined"
  /\ call.ret = RetThrew
  /\ call.err = "Error"
  /\ opts.args # <<>>
  /\ outcome.kind = "rejected"

\* C16: however many render calls there are, one after the other or
\* overlapping, compileStreaming is called at most once: it is called when
\* `pandoc` is still undefined, and a render that arrives while the
\* compilation is pending or after it settled (fulfilled or rejected)
\* awaits that same promise.
C16_SingleFlight ==
  /\ [](compiles <= 1)
  /\ [](compiles = 0 <=> pandocRef = "undefined")
  /\ [][compiles' # compiles =>
          /\ pandocRef = "undefined"
          /\ compiles = 0
          /\ compiles' = 1]_<<vars, hvars>>
  /\ [][(pandocRef \in {"fulfilled", "rejected"}) =>
          pandocRef' = pandocRef]_<<vars, hvars>>

C16_Witness ==
  /\ compiles = 1
  /\ rpc[1] = "resolved"
  /\ rpc[MaxRenders] = "awaitPandoc"
  /\ inv[MaxRenders].pc = "none"
  /\ pandocRef = "fulfilled"

\* the bytes that are invocation r's own
OwnBytes(r) == {FreshMemory(r).buf, StdinOf(r)}

\* a step of the guest of r: a syscall called, resumed or thrown
StepOf(r) == inv'[r].pc # inv[r].pc \/ inv'[r].n # inv[r].n

\* C17: with several invocations of the one compiled module running
\* interleaved, the memory of invocation r only ever holds r's arguments
\* and r's input, r's sink only receives bytes of r's memory, and r's
\* memoryRef is unbound or bound to r's memory; a step that changes the
\* memory or the memoryRef of r, hands a chunk to r's sink, or takes or
\* cancels r's input is a step of r's own guest and of no other; the
\* compilation, once settled, is never changed by any of them.
C17_Isolation ==
  /\ [](\A r \in Renders :
          /\ memories[r].args \in {<<>>, encode(joinArgs(ArgsOf(r)))}
          /\ memories[r].buf \in OwnBytes(r)
          /\ \A k \in DOMAIN streams[r].received :
               streams[r].received[k] \in OwnBytes(r)
          /\ \A k \in DOMAIN streams[r].pending :
               streams[r].pending[k] \in OwnBytes(r)
          /\ memoryRefs[r] \in {0, r}
          /\ (inv[r].pc = "guest" \/ Suspended(r)) => memoryOf(r) = r)
  /\ [][\A r \in Renders :
          ( \/ memories'[r] # memories[r]
            \/ memoryRefs'[r] # memoryRefs[r]
            \/ Len(streams'[r].pending) > Len(streams[r].pending)
            \/ (streams[r].src = "ready" /\ streams'[r].src = "done")
            \/ (streams[r].src # "cancelling" /\
                streams'[r].src = "cancelling") ) =>
            /\ StepOf(r)
            /\ \A q \in Renders \ {r} : ~StepOf(q)]_<<vars, hvars>>
  /\ [][(pandocRef \in {"fulfilled", "rejected"}) =>
          UNCHANGED <<pandocRef, compiles>>]_<<vars, hvars>>

C17_Witness ==
  /\ inv[1].pc = "fd_write"
  /\ streams[1].pending = <<StdinOf(1)>>
  /\ inv[MaxRenders].last = "fd_read"
  /\ inv[MaxRenders].pc = "guest"
  /\ memories[MaxRenders].buf = StdinOf(MaxRenders)
  /\ memories[1].buf = StdinOf(1)

RECURSIVE bigLeq(_, _)
\* v <= w for two values held as bytes, lowest first
bigLeq(v, w) ==
  IF v = <<>> THEN TRUE
  ELSE LET k == Len(v) IN
       IF v[k] # w[k] THEN v[k] < w[k]
       ELSE bigLeq(SubSeq(v, 1, k - 1), SubSeq(w, 1, k - 1))

\* C22: a clock_time_get for CLOCKID_MONOTONIC taken when performance.now()
\* reads t milliseconds stores the nanoseconds of t with the part below a
\* millisecond dropped, the whole milliseconds times 1,000,000; and of two
\* readings the later never stores the smaller value.
C22_Monotonic ==
  /\ ( /\ call.name = "clock_time_get"
       /\ call.code = CLOCKID_MONOTONIC
       /\ call.ret = ERRNO_SUCCESS ) =>
       subarray(mem, call.resp, U64) =
         bigMul(BigInt(call.now \div 1000, U64), 1000000, 0)
  /\ \A t1, t2 \in Times :
       t1.perf <= t2.perf => bigLeq(monotonic(t1.perf), monotonic(t2.perf))

RECURSIVE RegionAddrs(_)
\* the addresses of a sequence of iovecs <<off, len>>, in order
RegionAddrs(iovs) ==
  IF iovs = <<>> THEN <<>>
  ELSE [k \in 1..iovs[1][2] |-> iovs[1][1] + k - 1] \o RegionAddrs(Tail(iovs))

\* C23: when fd_read on fd 0 returns success with count n for two or more
\* iovecs, the first n addresses of the iovec regions taken in order hold
\* the n bytes that were next in the input stream, and the stream goes on
\* with the byte after them.
C23_ReadContiguous ==
  ( /\ call.name = "fd_read"
    /\ call.fd = 0
    /\ opts.stdin
    /\ call.iovlen >= 2
    /\ call.ret = ERRNO_SUCCESS ) =>
    LET addrs == RegionAddrs(IovecsAt(call.mem0, call.iovp, call.iovlen))
    IN /\ call.n <= Len(addrs)
       /\ call.n <= Len(call.data0)
       /\ \A k \in 1..call.n :
            /\ addrs[k] \in DOMAIN mem
            /\ mem[addrs[k]] = call.data0[k]
       /\ stdin.state = "readable" =>
            stdin.data = SubSeq(call.data0, call.n + 1, Len(call.data0))

\* C24: a run of the effect whose hash has been superseded (its cleanup
\* has aborted its signal) changes neither err nor contentUrl when its
\* render later fulfils or rejects; the error shown is the one of the
\* current run.
C24_StaleRender ==
  /\ [](err # "null" => errBy = cur)
  /\ [][\A e \in Effects :
          ( /\ effects[e].aborted
            /\ effects[e].pc = "awaiting"
            /\ effects'[e].pc = "done" ) =>
            (err' = err /\ contentUrl' = contentUrl)]_<<vars, hvars, uvars>>

\* C21: the link codec round-trips: decoding the text that encode gave for a
\* query gives a query equal to it, with the same url and the same
\* arguments in the same order.
C21_RoundTrip ==
  decoded # Nothing =>
    /\ decoded.kind = "ok"
    /\ decoded.query.url = query.url
    /\ decoded.query.args = query.args
    /\ decoded.query = query

\* a query of MaxArgs arguments, with a quote, a backslash and surrogates
\* that are no pair, has come back from decode
C21_Witness ==
  /\ decoded # Nothing
  /\ decoded.kind = "ok"
  /\ Len(query.args) = MaxArgs
  /\ query.args[1] = <<34, 92>>
  /\ query.args[MaxArgs] = <<56832, 55357>>
  /\ decoded.query = query

====
